---- MODULE Spec2Model ----
(***************************************************************************)
(* The task execution engine of agents-api: TaskExecutionWorkflow.run, its *)
(* step handlers and the set_last_error signal                             *)
(* (agents_api/workflows/task_execution/__init__.py), together with the    *)
(* collaborators that file calls (the transition engine, the composite     *)
(* helpers, continue_as_child, raise_complete_async), which are modelled   *)
(* from the specification's sections 3-5.                                  *)
(*                                                                         *)
(* One driver run (one Temporal workflow run of TaskExecutionWorkflow)     *)
(* executes one step; it is a "frame" here.  A frame starts further frames *)
(* for the continuation at the next cursor and for the child scopes of     *)
(* composite steps, and waits for them.  The transition log is one         *)
(* sequence in commit order; each entry carries the scope (the child       *)
(* execution) it belongs to and its sequence number within that scope.     *)
(***************************************************************************)
EXTENDS Integers, Sequences, FiniteSets, TLC

VARIABLES
    task,      \* execution_input.task: workflow name -> sequence of steps
    log,       \* the transition log, in commit order
    frames,    \* the driver runs started so far (index = run id)
    nsig,      \* number of set_last_error signals delivered so far
    cancelled, \* whether the execution's workflow has been cancelled
    twin,      \* the same execution fed the same inputs but no set_last_error signal
    writers    \* concurrent attempts to append one transition to the log

vars == <<task, log, frames, nsig, cancelled, twin, writers>>

-----------------------------------------------------------------------------
(* Bounds of the model *)

MaxSignals == 2
MaxFrames == 9
MaxItems == 2
MaxMapItems == 3

-----------------------------------------------------------------------------
(* Values: JSON-like outputs, uniformly shaped *)

Null == [k |-> "null", v |-> <<>>, s |-> "", ref |-> FALSE]
VInt(n) == [k |-> "int", v |-> <<n>>, s |-> "", ref |-> FALSE]
VBool(b) == [k |-> "bool", v |-> <<IF b THEN 1 ELSE 0>>, s |-> "", ref |-> FALSE]
VStr(x) == [k |-> "str", v |-> <<>>, s |-> x, ref |-> FALSE]
VList(q) == [k |-> "list", v |-> q, s |-> "", ref |-> FALSE]
VDict(q) == [k |-> "dict", v |-> q, s |-> "", ref |-> FALSE]
UnsetVal == [k |-> "unset", v |-> <<>>, s |-> "", ref |-> FALSE]

\* user_state keys, and the memo's value for a key (0 encodes an absent key)
Keys == <<"k1", "k2">>
KeyIndex(key) == CHOOSE j \in 1..Len(Keys) : Keys[j] = key
EmptyState == VDict(<<0, 0>>)

-----------------------------------------------------------------------------
(* Cursors *)

Target(w, n) == [workflow |-> w, step |-> n]
NoTarget == Target("", -1)
UnsetTarget == Target("unset", -1)

-----------------------------------------------------------------------------
(* Tasks *)

NoSleep == [seconds |-> 0, minutes |-> 0, hours |-> 0, days |-> 0]

Step(kind) ==
    [kind |-> kind, then |-> "", else_ |-> "", switch |-> <<>>, do |-> "",
     workflow |-> "", get |-> "", error |-> "", log |-> "", sleep |-> NoSleep,
     map |-> "", reduce |-> "", initial |-> Null, parallelism |-> 0,
     expr |-> "", unwrap |-> FALSE, auto_run_tools |-> FALSE]

EvaluateStep == Step("EvaluateStep")
ReturnStep == Step("ReturnStep")
\* evaluate and return steps whose expression is known: "_" is the step's input
EvaluateStepOf(e) == [Step("EvaluateStep") EXCEPT !.expr = e]
ReturnStepOf(e) == [Step("ReturnStep") EXCEPT !.expr = e]
SetStep == Step("SetStep")
LogStep(l) == [Step("LogStep") EXCEPT !.log = l]
GetStep(key) == [Step("GetStep") EXCEPT !.get = key]
SleepStep(sl) == [Step("SleepStep") EXCEPT !.sleep = sl]
ErrorWorkflowStep(e) == [Step("ErrorWorkflowStep") EXCEPT !.error = e]
YieldStep(w) == [Step("YieldStep") EXCEPT !.workflow = w]
WaitForInputStep == Step("WaitForInputStep")
IfElseWorkflowStep(t, e) == [Step("IfElseWorkflowStep") EXCEPT !.then = t, !.else_ = e]
SwitchStep(cases) == [Step("SwitchStep") EXCEPT !.switch = cases]
ForeachStep(d) == [Step("ForeachStep") EXCEPT !.do = d]
ParallelStep == Step("ParallelStep")
PromptStep(unwrap, auto) ==
    [Step("PromptStep") EXCEPT !.unwrap = unwrap, !.auto_run_tools = auto]
ToolCallStep == Step("ToolCallStep")
\* parallelism 0 stands for a parallelism left unset
MapReduceStep(m, r, init, p) ==
    [Step("MapReduceStep") EXCEPT !.map = m, !.reduce = r, !.initial = init,
                                  !.parallelism = p]

WorkflowNames == {"main", "sub", "b1", "b2"}

Workflows(main, sub, b1, b2) ==
    [n \in WorkflowNames |->
        CASE n = "main" -> main [] n = "sub" -> sub [] n = "b1" -> b1 [] n = "b2" -> b2]

SubWorkflow == <<EvaluateStep, ReturnStep>>
MapWorkflow == <<EvaluateStepOf("_"), ReturnStepOf("_")>>

Tasks ==
    { Workflows(<<EvaluateStep, SetStep, LogStep("hi"), ReturnStep>>, <<>>, <<>>, <<>>),
      Workflows(<<SetStep, EvaluateStep, GetStep("k1"), ReturnStep>>, <<>>, <<>>, <<>>),
      Workflows(<<EvaluateStep>>, <<>>, <<>>, <<>>),
      Workflows(<<SwitchStep(<<"b1", "b2">>), ReturnStep>>,
                SubWorkflow, <<YieldStep("sub")>>, <<EvaluateStep>>),
      Workflows(<<IfElseWorkflowStep("b1", "b2"), EvaluateStep, ReturnStep>>,
                SubWorkflow, <<YieldStep("sub")>>, <<ReturnStep>>),
      Workflows(<<ForeachStep("b1"), ReturnStep>>, <<>>, SubWorkflow, <<>>),
      Workflows(<<WaitForInputStep, ReturnStep>>, <<>>, <<>>, <<>>),
      Workflows(<<EvaluateStep, SleepStep([NoSleep EXCEPT !.seconds = 1]), ReturnStep>>,
                <<>>, <<>>, <<>>),
      Workflows(<<LogStep("x"), ErrorWorkflowStep("oops")>>, <<>>, <<>>, <<>>),
      Workflows(<<EvaluateStep, ParallelStep>>, <<>>, <<>>, <<>>),
      Workflows(<<SwitchStep(<<"b1", "b2">>)>>, <<>>, SubWorkflow, SubWorkflow),
      Workflows(<<LogStep("hi"), ReturnStep>>, <<>>, <<>>, <<>>),
      Workflows(<<SleepStep([NoSleep EXCEPT !.seconds = 1]), ReturnStep>>,
                <<>>, <<>>, <<>>),
      Workflows(<<YieldStep("main"), ReturnStep>>, <<>>, <<>>, <<>>),
      Workflows(<<IfElseWorkflowStep("b1", "b2"), ReturnStep>>, <<>>,
                <<YieldStep("main")>>, <<EvaluateStep, EvaluateStep>>),
      Workflows(<<IfElseWorkflowStep("b1", "b2"), LogStep("hi")>>, <<>>,
                <<EvaluateStep, LogStep("b")>>,
                <<EvaluateStepOf("_"), EvaluateStepOf("_")>>),
      Workflows(<<MapReduceStep("sub", "results + [_]", VList(<<>>), 0), ReturnStep>>,
                SubWorkflow, <<>>, <<>>),
      Workflows(<<MapReduceStep("sub", "results * 10 + _", VInt(0), 1), ReturnStep>>,
                SubWorkflow, <<>>, <<>>) }

\* the tasks run with map-reduce steps of every parallelism
MapTasks ==
    { Workflows(<<MapReduceStep("sub", "results * 10 + _", VInt(7), par), ReturnStep>>,
                MapWorkflow, <<>>, <<>>) : par \in {0, 1, 2} }
      \cup { Workflows(<<MapReduceStep("sub", "results + [_]", VList(<<>>), 0),
                        WaitForInputStep, ReturnStep>>,
                      MapWorkflow, <<>>, <<>>) }

\* the tasks with prompt and tool-call steps
ToolTasks ==
    { Workflows(<<PromptStep(u, a), ReturnStepOf("_")>>, <<>>, <<>>, <<>>) :
        u \in BOOLEAN, a \in BOOLEAN }
      \cup { Workflows(<<ToolCallStep, ReturnStepOf("_")>>, <<>>, <<>>, <<>>),
              Workflows(<<IfElseWorkflowStep("b1", "b2"), ReturnStepOf("_")>>, <<>>,
                        <<ToolCallStep, ReturnStepOf("_")>>,
                        <<PromptStep(FALSE, TRUE), ReturnStepOf("_")>>) }

\* the tasks run under set_last_error signals
SignalTasks ==
    { Workflows(<<EvaluateStep, SetStep, LogStep("hi"), ReturnStep>>, <<>>, <<>>, <<>>),
      Workflows(<<IfElseWorkflowStep("b1", "b2"), EvaluateStepOf("_"), ReturnStepOf("_")>>,
                MapWorkflow, <<YieldStep("sub")>>, MapWorkflow),
      Workflows(<<WaitForInputStep, ReturnStep>>, <<>>, <<>>, <<>>) }

-----------------------------------------------------------------------------
(* StepContext *)

CurrentStep(t, f) == t[f.workflow][f.step + 1]
IsMain(f) == f.workflow = "main"
IsFirstStep(f) == f.step = 0
IsLastStep(t, f) == f.step + 1 = Len(t[f.workflow])
Cursor(f) == Target(f.workflow, f.step)

-----------------------------------------------------------------------------
(* Frames: one per driver run *)

NoOutcome ==
    [raised |-> FALSE, exc |-> "", output |-> Null, error |-> Null,
     transition_to |-> [type |-> "", target |-> NoTarget]]

\* PartialTransition: a field left out by the handler is "unset"
PartialTransition(ty, out) ==
    [type |-> ty, output |-> out, next |-> UnsetTarget, user_state |-> UnsetVal,
     metadata |-> ""]
NoState == PartialTransition("", UnsetVal)

NoFinal == [type |-> "", next |-> NoTarget, output |-> Null]

\* the transition a run has called and awaits: the state and the last_error
\* it passed, evaluated at the call, and what the run does once it returns
NoPending == [state |-> NoState, last_error |-> 0, then |-> ""]

\* answer is bookkeeping: what the step's activity answered (the code keeps
\* it, as outcome, only when the activity neither raised nor reported an error).
\* rel: "root" for the execution's first run, "cont" for a continuation at the
\* next cursor (same scope), "child" for a child scope of a composite or yield step.
\* execution_input: the class of the object the run was started on, which is
\* an ExecutionInput wherever the caller passes one
NewFrame(id, parent, rel, scope, wf, n, input, ustate) ==
    [id |-> id, parent |-> parent, rel |-> rel, scope |-> scope,
     execution_input |-> "ExecutionInput",
     workflow |-> wf, step |-> n, current_input |-> input, user_state |-> ustate,
     last_error |-> 0, continued_as_new |-> FALSE,
     pc |-> "begin", outcome |-> NoOutcome, state |-> NoState, final |-> NoFinal,
     pending |-> NoPending,
     answer |-> NoOutcome,
     child |-> 0, items |-> <<>>, results |-> <<>>, acc |-> Null,
     stored |-> UnsetVal,
     \* bookkeeping: the activities the handler invoked, what the last one
     \* answered, and what the handler appended to the step's prompt
     calls |-> <<>>, response |-> UnsetVal, prompt |-> <<>>,
     result |-> Null, err |-> "", cause |-> "", handled |-> FALSE]

Ended == {"done", "failed", "cancelled"}

World(l, fr, n) == [log |-> l, fr |-> fr, nsig |-> n]

SetFrame(w, i, f) == [w EXCEPT !.fr[i] = f]

\* the run raises: the workflow run fails with this error
Fail(w, i, err, cause) ==
    SetFrame(w, i, [w.fr[i] EXCEPT !.pc = "failed", !.err = err, !.cause = cause])

\* the run returns a value
Return(w, i, val) ==
    SetFrame(w, i, [w.fr[i] EXCEPT !.pc = "done", !.result = val])

\* start a child workflow run and wait for it in state `waitpc`
Spawn(w, i, rel, wf, n, input, ustate, waitpc) ==
    LET id == Len(w.fr) + 1
        f == w.fr[i]
        scope == IF rel = "cont" THEN f.scope ELSE id
        c == NewFrame(id, i, rel, scope, wf, n, input, ustate)
    IN [w EXCEPT !.fr = Append([w.fr EXCEPT ![i].pc = waitpc, ![i].child = id], c)]

-----------------------------------------------------------------------------
(* The transition engine *)

TerminalTypes == {"finish", "finish_branch", "error", "cancelled"}

\* legal successors per current type
AllowedNext(ty) ==
    CASE ty \in {"init", "init_branch"} -> {"wait", "step", "error", "cancelled"}
      [] ty = "wait" -> {"resume", "step", "error", "cancelled"}
      [] ty \in {"resume", "step"} ->
            {"wait", "step", "error", "cancelled", "finish", "finish_branch"}
      [] OTHER -> {}

ScopeEntries(l, scope) == SelectSeq(l, LAMBDA e : e.scope = scope)

\* the type of the scope's latest transition, "" when it has none
LatestType(l, scope) ==
    LET es == ScopeEntries(l, scope)
    IN IF es = <<>> THEN "" ELSE es[Len(es)].type

\* an engine that validates nothing
AnyTransition(prev, ty) == TRUE

LegalTransition(prev, ty) ==
    IF prev = "" THEN ty \in {"init", "init_branch"} ELSE ty \in AllowedNext(prev)

\* a log that numbers its transitions across all scopes
NextSeqAcrossScopes(l, scope) == Len(l)

\* the sequence number the log gives an appended transition
NextSeq(l, scope) == Len(ScopeEntries(l, scope))

\* an engine whose default type is step wherever the cursor is
DefaultTypeStep(t, f) == "step"

\* the default type of a step's transition
DefaultType(t, f) ==
    IF IsLastStep(t, f)
    THEN (IF IsMain(f) THEN "finish" ELSE "finish_branch")
    ELSE "step"

\* the default next cursor of a transition whose state names none: the
\* successor of the cursor in its scope, and none at the scope's last step
DefaultNext(t, f) ==
    IF ~IsLastStep(t, f)
    THEN Target(f.workflow, f.step + 1)
    ELSE NoTarget

\* a log that appends whatever seq the writer last knew
appendUnchecked(l, entry, from_seq) ==
    [ok |-> TRUE, log |-> Append(l, [entry EXCEPT !.seq = from_seq])]

\* append(execution_id, transition): compare-and-set on the last-known seq.
\* The entry gets seq from_seq if that is still the next number of its
\* execution's log; otherwise the append fails with Conflict.
append(l, entry, from_seq) ==
    IF NextSeq(l, entry.scope) = from_seq
    THEN [ok |-> TRUE, log |-> Append(l, [entry EXCEPT !.seq = from_seq])]
    ELSE [ok |-> FALSE, log |-> l]

\* transition(context, state, last_error=...): resolve, validate, append.
\* le = 0 when the caller passes no last_error.
transition(t, w, i, st, le) ==
    LET f == w.fr[i]
        ty == IF st.type = "" THEN DefaultType(t, f) ELSE st.type
        nxt == IF st.next = UnsetTarget THEN DefaultNext(t, f) ELSE st.next
        out == IF st.output = UnsetVal THEN Null ELSE st.output
        entry == [scope |-> f.scope, seq |-> NextSeq(w.log, f.scope), type |-> ty,
                  current |-> Cursor(f), next |-> nxt, output |-> out,
                  last_error |-> le, metadata |-> st.metadata,
                  \* bookkeeping: the committing run, and the number of
                  \* set_last_error signals delivered before the commit
                  by |-> i, nsig |-> w.nsig]
        a == append(w.log, entry, NextSeq(w.log, f.scope))
    IN IF LegalTransition(LatestType(w.log, f.scope), ty) /\ a.ok
       THEN [ok |-> TRUE, w |-> [w EXCEPT !.log = a.log],
             final |-> [type |-> ty, next |-> nxt, output |-> out]]
       ELSE [ok |-> FALSE, w |-> w, final |-> NoFinal]

-----------------------------------------------------------------------------
(* Activities: their results are inputs of the model *)

\* the activity STEP_TO_ACTIVITY gives a step type, "" when it gives none
STEP_TO_ACTIVITY(kind) ==
    CASE kind = "PromptStep" -> "prompt_step"
      [] kind = "ToolCallStep" -> "tool_call_step"
      [] kind = "WaitForInputStep" -> "wait_for_input_step"
      [] kind = "SwitchStep" -> "switch_step"
      [] kind = "LogStep" -> "log_step"
      [] kind = "EvaluateStep" -> "evaluate_step"
      [] kind = "ReturnStep" -> "return_step"
      [] kind = "YieldStep" -> "yield_step"
      [] kind = "IfElseWorkflowStep" -> "if_else_step"
      [] kind = "ForeachStep" -> "for_each_step"
      [] kind = "MapReduceStep" -> "map_reduce_step"
      [] kind = "SetStep" -> "set_value_step"
      [] OTHER -> ""

Ok(out) == [NoOutcome EXCEPT !.output = out]
Raises(msg) == [NoOutcome EXCEPT !.raised = TRUE, !.exc = msg]
WithError(e) == [NoOutcome EXCEPT !.error = e]

\* the transition types a yield_step outcome may name
YieldTypes == {"step", "init_branch"}

ItemLists == {[j \in 1..n |-> j] : n \in 0..MaxItems}
MapItemLists == {[j \in 1..n |-> j] : n \in 0..MaxMapItems}

\* the types of tools
ToolTypes == {"function", "integration", "api_call", "system"}

\* the response of the model: message["choices"][0] has the finish_reason,
\* and its first tool call, if any, the type ty
Message(n, finish_reason, ty) ==
    [k |-> IF finish_reason = "tool_calls" THEN "message:tool_calls" ELSE "message:stop",
     v |-> <<n>>, s |-> ty, ref |-> FALSE]
FinishReason(m) == IF m.k = "message:tool_calls" THEN "tool_calls" ELSE "stop"
\* choice["message"]["tool_calls"] and the type of its first element
ToolCalls(m) == [k |-> "tool_calls", v |-> m.v, s |-> m.s, ref |-> FALSE]
InputType(m) == m.s

Messages ==
    {Message(1, "stop", "")} \cup {Message(1, "tool_calls", ty) : ty \in ToolTypes}

\* the names a tool call may carry, and the tools of the context
ToolNames == <<"t1", "t9">>
ContextTools == {"t1"}

\* a tool call: its type and the name of the tool it calls
ToolCall(ty, n) == [k |-> "tool_call", v |-> <<n>>, s |-> ty, ref |-> FALSE]
ToolName(d) == ToolNames[d.v[1]]

\* what the activity of a tool, or the caller that runs it, may respond
ToolResponses == {VInt(8), VInt(9)}

\* what prompt_step may answer when it is dispatched again
SecondResponses == {Ok(Message(2, "stop", "")), WithError(VStr("bad")), Raises("boom")}

\* what the step's activity may answer
Outcomes(st, input) ==
    LET good ==
          CASE st.kind \in {"EvaluateStep", "ReturnStep"} /\ st.expr = "_" ->
                \* the activity loads an input that was stored remotely
                {Ok([input EXCEPT !.ref = FALSE])}
            [] st.kind = "EvaluateStep" -> {Ok(VInt(1)), Ok(VInt(2))}
            [] st.kind = "ReturnStep" -> {Ok(VInt(1)), Ok(VInt(2))}
            [] st.kind = "SetStep" -> {Ok(VDict(<<1, 0>>)), Ok(VDict(<<0, 2>>))}
            [] st.kind = "SwitchStep" -> {Ok(VInt(n)) : n \in -1..Len(st.switch)}
            [] st.kind = "IfElseWorkflowStep" -> {Ok(VBool(TRUE)), Ok(VBool(FALSE))}
            [] st.kind = "ForeachStep" -> {Ok(VList(q)) : q \in ItemLists}
            [] st.kind = "MapReduceStep" -> {Ok(VList(q)) : q \in MapItemLists}
            [] st.kind = "YieldStep" ->
                  {[Ok(VInt(3)) EXCEPT !.transition_to =
                        [type |-> ty, target |-> Target(st.workflow, 0)]] : ty \in YieldTypes}
            [] st.kind = "WaitForInputStep" -> {Ok(VStr("prompt"))}
            [] st.kind = "PromptStep" -> {Ok(m) : m \in Messages}
            [] st.kind = "ToolCallStep" ->
                  {Ok(ToolCall(ty, n)) : ty \in ToolTypes \cup {"unknown"},
                                         n \in 1..Len(ToolNames)}
            [] OTHER -> {Ok(Null)}
        bad == IF st.expr = "_" THEN {Raises("boom")}
               ELSE {Raises("boom"), WithError(VStr("bad"))}
    IN IF STEP_TO_ACTIVITY(st.kind) = "" THEN {NoOutcome} ELSE good \cup bad

\* what the external caller may supply on resume
ResumeInputs == {VInt(5), VInt(6)}

\* str(e) of the exception an activity raised
ExcStr(oc) == VStr(oc.exc)

-----------------------------------------------------------------------------
(* The driver: TaskExecutionWorkflow *)

NoneState == PartialTransition("None", UnsetVal)

\* `await transition(context, state, last_error=le)`: the arguments are
\* evaluated, the call is made and the run waits for it to return
AwaitTransition(w, i, st, le, then) ==
    SetFrame(w, i, [w.fr[i] EXCEPT
                       !.pending = [state |-> st, last_error |-> le, then |-> then],
                       !.pc = IF then = "step" THEN "commit" ELSE "transition"])

\* a run that takes a handler's None for a state without type and output
StateOrNothing(state) ==
    IF state = NoneState THEN PartialTransition("", Null) ELSE state

\* state or PartialTransition(type="error", output="Not implemented")
StateOrNotImplemented(state) ==
    IF state = NoneState
    THEN PartialTransition("error", VStr("Not implemented"))
    ELSE state

\* run, step 4: the handler returned st; run calls transition with it and
\* with the last_error it holds at that moment
ToCommit(w, i, st) ==
    AwaitTransition(SetFrame(w, i, [w.fr[i] EXCEPT !.state = st]), i,
                    StateOrNotImplemented(st), w.fr[i].last_error, "step")

\* a signal handler that also fails the run
set_last_error_failing(f, value) ==
    [f EXCEPT !.last_error = value, !.pc = "failed", !.cause = "signal"]

\* @workflow.signal set_last_error
set_last_error(f, value) == [f EXCEPT !.last_error = value]

\* a handler that passes on what the log_step activity answered
handle_LogStepOutcome(t, w, i) ==
    LET f == w.fr[i]
    IN ToCommit(w, i, [PartialTransition("", f.outcome.output)
                          EXCEPT !.metadata = CurrentStep(t, f).log])

handle_LogStep(t, w, i) ==
    LET f == w.fr[i]
    IN ToCommit(w, i, [PartialTransition("", f.current_input)
                          EXCEPT !.metadata = CurrentStep(t, f).log])

handle_ReturnStep(t, w, i) ==
    LET f == w.fr[i]
        output == f.outcome.output
        st == [PartialTransition(IF IsMain(f) THEN "finish" ELSE "finish_branch", output)
                  EXCEPT !.next = NoTarget]
    IN AwaitTransition(w, i, st, f.last_error, "return")

\* a run that goes on to commit the step's transition after a return step
ReturnedGoingOn(t, w, i) ==
    ToCommit(w, i, PartialTransition("", w.fr[i].outcome.output))

\* the return step's transition is committed: the handler returns the
\* output, and so does run
Returned(t, w, i) == Return(w, i, w.fr[i].outcome.output)

\* a handler that counts the branches from the end
handle_SwitchStepReversed(t, w, i) ==
    LET f == w.fr[i]
        index == f.outcome.output.v[1]
        cases == CurrentStep(t, f).switch
    IN IF index > 0
       THEN Spawn(w, i, "child", cases[Len(cases) + 1 - index], 0,
                  f.current_input, f.user_state, "await_child")
       ELSE IF index < 0
       THEN Fail(w, i, "Negative indices not allowed", "handler_raised")
       ELSE ToCommit(w, i, NoneState)

handle_SwitchStep(t, w, i) ==
    LET f == w.fr[i]
        index == f.outcome.output.v[1]
    IN IF index > 0
       THEN Spawn(w, i, "child", CurrentStep(t, f).switch[index], 0,
                  f.current_input, f.user_state, "await_child")
       ELSE IF index < 0
       THEN Fail(w, i, "Negative indices not allowed", "handler_raised")
       ELSE ToCommit(w, i, NoneState)

handle_IfElseWorkflowStep(t, w, i) ==
    LET f == w.fr[i]
        st == CurrentStep(t, f)
    IN Spawn(w, i, "child", IF f.outcome.output = VBool(TRUE) THEN st.then ELSE st.else_,
             0, f.current_input, f.user_state, "await_child")

\* a handler that runs the do workflow on the last item first
handle_ForeachStepBackwards(t, w, i) ==
    LET f == w.fr[i]
        items == f.outcome.output.v
    IN IF items = <<>>
       THEN ToCommit(w, i, PartialTransition("", VList(<<>>)))
       ELSE Spawn(SetFrame(w, i, [f EXCEPT !.items = items, !.results = <<>>]),
                  i, "child", CurrentStep(t, f).do, 0, VInt(items[Len(items)]),
                  f.user_state, "await_child")

\* a handler that runs the do workflow once on the whole list, empty or not
handle_ForeachStepOnList(t, w, i) ==
    LET f == w.fr[i]
        items == f.outcome.output.v
    IN Spawn(SetFrame(w, i, [f EXCEPT !.items = <<0>>, !.results = <<>>]),
             i, "child", CurrentStep(t, f).do, 0, VList(items), f.user_state,
             "await_child")

handle_ForeachStep(t, w, i) ==
    LET f == w.fr[i]
        items == f.outcome.output.v
    IN IF items = <<>>
       THEN ToCommit(w, i, PartialTransition("", VList(<<>>)))
       ELSE Spawn(SetFrame(w, i, [f EXCEPT !.items = items, !.results = <<>>]),
                  i, "child", CurrentStep(t, f).do, 0, VInt(items[1]), f.user_state,
                  "await_child")

\* the output of a child execution as a number (-1 when it is none)
ChildOutput(c) == IF c.result.k = "int" THEN c.result.v[1] ELSE -1

\* the reduce expression evaluated on the accumulator (results) and one map
\* output (_)
Reduce(op, acc, x) ==
    IF op = "results + [_]" THEN VList(Append(acc.v, x))
    ELSE VInt(acc.v[1] * 10 + x)

\* the reduce expression folded over the outputs, left to right
RECURSIVE ReduceAll(_, _, _)
ReduceAll(op, acc, xs) ==
    IF xs = <<>> THEN acc
    ELSE ReduceAll(op, Reduce(op, acc, Head(xs)), Tail(xs))

\* execute_map_reduce_step: one map child at a time, reducing as they return
execute_map_reduce_step(t, w, i) ==
    LET f == w.fr[i]
        st == CurrentStep(t, f)
        items == f.outcome.output.v
    IN IF items = <<>>
       THEN ToCommit(w, i, PartialTransition("", st.initial))
       ELSE Spawn(SetFrame(w, i, [f EXCEPT !.items = items, !.acc = st.initial]),
                  i, "child", st.map, 0, VInt(items[1]), f.user_state, "await_child")

\* execute_map_reduce_step_parallel: the map children run concurrently
execute_map_reduce_step_parallel(t, w, i) ==
    LET f == w.fr[i]
        st == CurrentStep(t, f)
        items == f.outcome.output.v
    IN IF items = <<>>
       THEN ToCommit(w, i, PartialTransition("", st.initial))
       ELSE SetFrame(w, i, [f EXCEPT !.items = items, !.pc = "await_children"])

handle_MapReduceStep(t, w, i) ==
    LET parallelism == CurrentStep(t, w.fr[i]).parallelism
    IN IF parallelism = 0 \/ parallelism = 1
       THEN execute_map_reduce_step(t, w, i)
       ELSE execute_map_reduce_step_parallel(t, w, i)

\* the child executions run i has started, in the order it started them
RECURSIVE Ascending(_)
Ascending(S) ==
    IF S = {} THEN <<>>
    ELSE LET m == CHOOSE x \in S : \A y \in S : x <= y
         IN <<m>> \o Ascending(S \ {m})

MapChildren(w, i) ==
    Ascending({c \in 1..Len(w.fr) : w.fr[c].parent = i /\ w.fr[c].rel = "child"})

\* the map children of run i that were started and have not ended
RunningMaps(w, i) ==
    {k \in 1..Len(MapChildren(w, i)) : w.fr[MapChildren(w, i)[k]].pc \notin Ended}

\* a semaphore that lets every map child in
SemaphoreOpen(t, w, i) == TRUE

\* the semaphore of size parallelism has a free slot
SemaphoreFree(t, w, i) ==
    Cardinality(RunningMaps(w, i)) < CurrentStep(t, w.fr[i]).parallelism

\* the map child of the next item gets a slot and starts
StartMap(t, w, i) ==
    LET f == w.fr[i]
        k == Len(MapChildren(w, i)) + 1
    IN Spawn(w, i, "child", CurrentStep(t, f).map, 0, VInt(f.items[k]), f.user_state,
             "await_children")

\* the outputs of the map children, gathered in completion order
RECURSIVE ByCompletion(_, _)
ByCompletion(w, S) ==
    IF S = {} THEN <<>>
    ELSE LET ended(c) == CHOOSE q \in 1..Len(w.log) :
                             w.log[q].scope = c /\ w.log[q].type = "finish_branch"
             m == CHOOSE x \in S : \A y \in S : ended(x) <= ended(y)
         IN <<ChildOutput(w.fr[m])>> \o ByCompletion(w, S \ {m})

GatheredAsCompleted(w, i) ==
    ByCompletion(w, {c \in 1..Len(w.fr) : w.fr[c].parent = i /\ w.fr[c].rel = "child"})

\* the outputs of the map children, gathered in the order of the items
Gathered(w, i) ==
    [k \in 1..Len(MapChildren(w, i)) |-> ChildOutput(w.fr[MapChildren(w, i)[k]])]

\* a reduction that starts from the first output instead of initial
CollectMapsUnseeded(t, w, i) ==
    LET f == w.fr[i]
        st == CurrentStep(t, f)
        results == Gathered(w, i)
    IN ToCommit(SetFrame(w, i, [f EXCEPT !.results = results]), i,
                PartialTransition("", ReduceAll(st.reduce,
                    IF st.reduce = "results + [_]" THEN VList(<<results[1]>>)
                    ELSE VInt(results[1]), Tail(results))))

\* every map child has returned: reduce the gathered outputs
CollectMaps(t, w, i) ==
    LET f == w.fr[i]
        st == CurrentStep(t, f)
        results == Gathered(w, i)
    IN ToCommit(SetFrame(w, i, [f EXCEPT !.results = results]), i,
                PartialTransition("", ReduceAll(st.reduce, st.initial, results)))

\* a map child has failed: the step fails, and the runs it leaves behind
\* are closed with it
MapFailed(w, i) ==
    LET bad == CHOOSE k \in 1..Len(MapChildren(w, i)) :
                   w.fr[MapChildren(w, i)[k]].pc = "failed"
        closed == [w EXCEPT !.fr =
                     [j \in 1..Len(w.fr) |->
                        IF j > i /\ w.fr[j].pc \notin Ended
                        THEN [w.fr[j] EXCEPT !.pc = "cancelled", !.cause = "parent_closed"]
                        ELSE w.fr[j]]]
    IN Fail(closed, i, w.fr[MapChildren(w, i)[bad]].err, "child_failed")

TotalSeconds(sleep) ==
    sleep.seconds + sleep.minutes * 60 + sleep.hours * 60 * 60
        + sleep.days * 24 * 60 * 60

\* the handler awaits asyncio.sleep(total_seconds, result=current_input): a
\* timer, on which the run sleeps inside the handler
handle_SleepStep(t, w, i) ==
    LET f == w.fr[i]
    IN IF TotalSeconds(CurrentStep(t, f).sleep) > 0
       THEN SetFrame(w, i, [f EXCEPT !.pc = "sleeping"])
       ELSE Fail(w, i, "Sleep duration must be greater than 0", "handler_raised")

\* the timer fired: the sleep gives its result, the handler returns it
SleepReturned(w, i, result) ==
    ToCommit(w, i, PartialTransition("", result))

handle_EvaluateStep(t, w, i) ==
    ToCommit(w, i, PartialTransition("", w.fr[i].outcome.output))

handle_ErrorWorkflowStep(t, w, i) ==
    LET f == w.fr[i]
    IN AwaitTransition(w, i, PartialTransition("error", VStr(CurrentStep(t, f).error)),
                       f.last_error, "error_step")

\* the yield's transition is committed: the handler starts the child at the
\* target, continue_as_child(self.context, start=..., current_input=output):
\* the child run is started on the StepContext, not on its execution_input
YieldChild(t, w, i) ==
    LET f == w.fr[i]
        to == f.outcome.transition_to
        v == Spawn(w, i, "child", to.target.workflow, to.target.step, f.outcome.output,
                   f.user_state, "await_child")
    IN SetFrame(v, Len(v.fr), [v.fr[Len(v.fr)] EXCEPT !.execution_input = "StepContext"])

handle_YieldStep(t, w, i) ==
    LET f == w.fr[i]
        output == f.outcome.output
        to == f.outcome.transition_to
    IN AwaitTransition(w, i,
                       [PartialTransition(to.type, output) EXCEPT !.next = to.target],
                       f.last_error, "yield")

\* the activity raise_complete_async: commit `wait`, then suspend
raise_complete_async(t, w, i, payload) ==
    AwaitTransition(w, i, [PartialTransition("wait", payload) EXCEPT !.next = NoTarget],
                    0, "suspend")

handle_WaitForInputStep(t, w, i) ==
    raise_complete_async(t, w, i, w.fr[i].outcome.output)

\* a handler that returns the external input without a type
WaitForInputResumedAsStep(w, i, payload) ==
    ToCommit(w, i, PartialTransition("", payload))

\* the suspended activity completes with the external input
WaitForInputResumed(w, i, payload) ==
    ToCommit(w, i, PartialTransition("resume", payload))

\* the handler invokes an activity
Invoke(w, i, activity) ==
    SetFrame(w, i, [w.fr[i] EXCEPT !.calls = Append(@, activity)])

\* the condition on which the prompt step outputs the response as it is
OutputsMessageUnlessUnwrap(step, message) ==
    ~step.unwrap \/ ~step.auto_run_tools \/ FinishReason(message) # "tool_calls"

OutputsMessage(step, message) ==
    step.unwrap \/ ~step.auto_run_tools \/ FinishReason(message) # "tool_calls"

handle_PromptStep(t, w, i) ==
    LET f == w.fr[i]
        step == CurrentStep(t, f)
        message == f.outcome.output
        input_type == InputType(message)
    IN IF OutputsMessage(step, message)
       THEN ToCommit(w, i, PartialTransition("", message))
       ELSE CASE input_type = "function" ->
                   raise_complete_async(t, Invoke(w, i, "raise_complete_async"), i,
                                        ToolCalls(message))
              [] input_type = "integrations" ->
                   Fail(w, i, "Integration tool calls not yet supported", "handler_raised")
              [] input_type = "api_call" ->
                   Fail(w, i, "API_CALL tool calls not yet supported", "handler_raised")
              [] input_type = "system" ->
                   Fail(w, i, "SYSTEM tool calls not yet supported", "handler_raised")
              [] OTHER -> ToCommit(w, i, PartialTransition("", message))

\* a handler that forgets what it was told when it asks the model again
PromptResumedForgetful(w, i, tool_calls_results) ==
    LET f == Invoke(w, i, "prompt_step").fr[i]
    IN SetFrame(w, i, [f EXCEPT !.response = tool_calls_results, !.pc = "redispatch"])

\* the caller delivered the results of the tool calls: the handler appends
\* the message and the results to the step's prompt and invokes prompt_step
PromptResumed(w, i, tool_calls_results) ==
    LET f == Invoke(w, i, "prompt_step").fr[i]
    IN SetFrame(w, i, [f EXCEPT !.response = tool_calls_results,
                                !.prompt = f.prompt \o <<f.outcome.output,
                                                         tool_calls_results>>,
                                !.pc = "redispatch"])

\* prompt_step answered the second time
PromptAgain(t, w, i, new_response) ==
    LET f == w.fr[i]
    IN IF new_response.raised
       THEN Fail(w, i, new_response.exc, "handler_raised")
       ELSE ToCommit(SetFrame(w, i, [f EXCEPT !.response = new_response.output]), i,
                     PartialTransition("resume", new_response.output))

\* an activity for every type of tool except the one the type names
ToolActivityShifted(ty) ==
    CASE ty = "function" -> "raise_complete_async"
      [] ty = "integration" -> "execute_api_call"
      [] ty = "api_call" -> "execute_system"
      [] ty = "system" -> "execute_integration"
      [] OTHER -> ""

\* the activity the handler invokes for a tool call of the type
ToolActivity(ty) ==
    CASE ty = "function" -> "raise_complete_async"
      [] ty = "integration" -> "execute_integration"
      [] ty = "api_call" -> "execute_api_call"
      [] ty = "system" -> "execute_system"
      [] OTHER -> ""

\* a lookup that finds every tool
FindToolAnyway(tools, tool_name) == tool_name

\* next((t for t in self.context.tools if t.name == tool_name), None):
\* "" stands for None
FindTool(tools, tool_name) == IF tool_name \in tools THEN tool_name ELSE ""

handle_ToolCallStep(t, w, i) ==
    LET f == w.fr[i]
        tool_call == f.outcome.output
        ty == tool_call.s
        tool_name == ToolName(tool_call)
    IN CASE ty = "function" ->
              raise_complete_async(t, Invoke(w, i, ToolActivity(ty)), i, tool_call)
         [] ty \in {"integration", "api_call"} ->
              IF FindTool(ContextTools, tool_name) = ""
              THEN Fail(w, i, "Integration " \o tool_name \o " not found",
                        "handler_raised")
              ELSE SetFrame(Invoke(w, i, ToolActivity(ty)), i,
                            [Invoke(w, i, ToolActivity(ty)).fr[i] EXCEPT !.pc = "await_tool"])
         [] ty = "system" ->
              SetFrame(Invoke(w, i, ToolActivity(ty)), i,
                       [Invoke(w, i, ToolActivity(ty)).fr[i] EXCEPT !.pc = "await_tool"])
         [] OTHER -> ToCommit(w, i, NoneState)

\* the tool's activity answered: tool_call_response is None when it raised
ToolReturned(t, w, i, raised, tool_call_response) ==
    LET f == w.fr[i]
    IN IF raised
       THEN Fail(w, i, "boom", "handler_raised")
       ELSE ToCommit(SetFrame(w, i, [f EXCEPT !.response = tool_call_response]), i,
                     PartialTransition("", tool_call_response))

\* the run suspended inside its handler goes on: the timer of a sleep step
\* fired, or raise_complete_async completed with what the external caller
\* supplied
Resumed(t, w, i, payload) ==
    IF w.fr[i].pc = "sleeping"
    THEN SleepReturned(w, i, payload)
    ELSE IF CurrentStep(t, w.fr[i]).kind = "PromptStep"
    THEN PromptResumed(w, i, payload)
    ELSE WaitForInputResumed(SetFrame(w, i, [w.fr[i] EXCEPT !.response = payload]),
                             i, payload)

handle_SetStep(t, w, i) ==
    LET f == w.fr[i]
    IN ToCommit(w, i, [PartialTransition("", f.current_input)
                          EXCEPT !.user_state = f.outcome.output])

\* workflow.memo_value(key, default=None)
MemoValue(ustate, key) ==
    IF ustate.v[KeyIndex(key)] = 0 THEN Null ELSE VInt(ustate.v[KeyIndex(key)])

handle_GetStep(t, w, i) ==
    LET f == w.fr[i]
    IN ToCommit(w, i, PartialTransition("", MemoValue(f.user_state, CurrentStep(t, f).get)))

handle_ParallelStep(t, w, i) ==
    Fail(w, i, "Not implemented", "handler_raised")

handle_step(t, w0, i) ==
    LET w == SetFrame(w0, i, [w0.fr[i] EXCEPT !.handled = TRUE])
        f == w.fr[i]
        kind == CurrentStep(t, f).kind
    IN CASE kind = "LogStep" -> handle_LogStep(t, w, i)
         [] kind = "ReturnStep" -> handle_ReturnStep(t, w, i)
         [] kind = "SwitchStep" -> handle_SwitchStep(t, w, i)
         [] kind = "IfElseWorkflowStep" -> handle_IfElseWorkflowStep(t, w, i)
         [] kind = "ForeachStep" -> handle_ForeachStep(t, w, i)
         [] kind = "MapReduceStep" -> handle_MapReduceStep(t, w, i)
         [] kind = "SleepStep" -> handle_SleepStep(t, w, i)
         [] kind = "EvaluateStep" -> handle_EvaluateStep(t, w, i)
         [] kind = "ErrorWorkflowStep" -> handle_ErrorWorkflowStep(t, w, i)
         [] kind = "YieldStep" -> handle_YieldStep(t, w, i)
         [] kind = "WaitForInputStep" -> handle_WaitForInputStep(t, w, i)
         [] kind = "SetStep" -> handle_SetStep(t, w, i)
         [] kind = "GetStep" -> handle_GetStep(t, w, i)
         [] kind = "ParallelStep" -> handle_ParallelStep(t, w, i)
         [] kind = "PromptStep" -> handle_PromptStep(t, w, i)
         [] kind = "ToolCallStep" -> handle_ToolCallStep(t, w, i)
         [] OTHER -> AwaitTransition(w, i,
                                     PartialTransition("error", VStr("Not implemented")),
                                     f.last_error, "unhandled")

\* a driver that goes on to the handler whatever error the outcome carries
RunActivityGoingOn(t, w0, i, oc) ==
    LET w == SetFrame(w0, i, [w0.fr[i] EXCEPT !.answer = oc])
        f == w.fr[i]
        kind == CurrentStep(t, f).kind
    IN IF STEP_TO_ACTIVITY(kind) = ""
       THEN Fail(w, i, "AttributeError", "none_outcome")
       ELSE IF oc.raised
       THEN AwaitTransition(w, i, PartialTransition("error", ExcStr(oc)), 0,
                            "activity_raised")
       ELSE handle_step(t, SetFrame(w, i, [f EXCEPT !.outcome = oc]), i)

\* run, steps 2 and 3: the step's activity answered (oc is None when the
\* step has no activity); look at the outcome and, if it carries no error,
\* call the step's handler
RunActivity(t, w0, i, oc) ==
    LET w == SetFrame(w0, i, [w0.fr[i] EXCEPT !.answer = oc])
        f == w.fr[i]
        kind == CurrentStep(t, f).kind
    IN IF STEP_TO_ACTIVITY(kind) = ""
       THEN \* outcome is None: outcome.error raises AttributeError
            Fail(w, i, "AttributeError", "none_outcome")
       ELSE IF oc.raised
       THEN AwaitTransition(w, i, PartialTransition("error", ExcStr(oc)), 0,
                            "activity_raised")
       ELSE IF oc.error # Null
       THEN AwaitTransition(w, i, PartialTransition("error", oc.error), 0,
                            "outcome_error")
       ELSE handle_step(t, SetFrame(w, i, [f EXCEPT !.outcome = oc]), i)

\* run, step 2: dispatch the step's activity and wait for its answer; a
\* step without activity goes straight on with outcome None
RunDispatch(t, w, i) ==
    IF STEP_TO_ACTIVITY(CurrentStep(t, w.fr[i]).kind) = ""
    THEN RunActivity(t, w, i, NoOutcome)
    ELSE SetFrame(w, i, [w.fr[i] EXCEPT !.pc = "dispatch"])

\* a run that commits init / init_branch whatever its cursor and its origin
RunInitAlways(t, w, i) ==
    LET f == w.fr[i]
        st == [PartialTransition(IF IsMain(f) THEN "init" ELSE "init_branch",
                                 f.current_input) EXCEPT !.next = Cursor(f)]
    IN IF f.execution_input # "ExecutionInput"
       THEN Fail(w, i, "AttributeError", "no_task")
       ELSE AwaitTransition(w, i, st, f.last_error, "init")

\* run, up to step 1: `execution_input.task` raises AttributeError on an
\* object that is no ExecutionInput; then transition to init / init_branch
\* if this is the first step
\* a run that commits init at the first step of any workflow
RunInitAsMain(t, w, i) ==
    LET f == w.fr[i]
        st == [PartialTransition("init", f.current_input) EXCEPT !.next = Cursor(f)]
    IN IF f.execution_input # "ExecutionInput"
       THEN Fail(w, i, "AttributeError", "no_task")
       ELSE IF IsFirstStep(f) /\ ~f.continued_as_new
       THEN AwaitTransition(w, i, st, f.last_error, "init")
       ELSE RunDispatch(t, w, i)

RunInit(t, w, i) ==
    LET f == w.fr[i]
        st == [PartialTransition(IF IsMain(f) THEN "init" ELSE "init_branch",
                                 f.current_input) EXCEPT !.next = Cursor(f)]
    IN IF f.execution_input # "ExecutionInput"
       THEN Fail(w, i, "AttributeError", "no_task")
       ELSE IF IsFirstStep(f) /\ ~f.continued_as_new
       THEN AwaitTransition(w, i, st, f.last_error, "init")
       ELSE RunDispatch(t, w, i)

\* a handler that takes a child's result whether or not the child failed
ChildEndedAnyhow(t, w, i) ==
    ToCommit(w, i, PartialTransition("", w.fr[w.fr[i].child].result))

\* a handler that takes a failed child for one that returned nothing
ChildEndedSwallowing(t, w, i) ==
    LET c == w.fr[w.fr[i].child]
    IN ToCommit(w, i, PartialTransition("", IF c.pc = "done" THEN c.result ELSE Null))

\* a child scope started by the step's handler has ended
ChildEnded(t, w, i) ==
    LET f == w.fr[i]
        c == w.fr[f.child]
        kind == CurrentStep(t, f).kind
        results == Append(f.results, ChildOutput(c))
    IN IF c.pc # "done"
       THEN Fail(w, i, c.err, "child_failed")
       ELSE IF kind = "ForeachStep"
       THEN IF Len(results) < Len(f.items)
            THEN Spawn(SetFrame(w, i, [f EXCEPT !.results = results]), i, "child",
                       CurrentStep(t, f).do, 0, VInt(f.items[Len(results) + 1]),
                       f.user_state, "await_child")
            ELSE ToCommit(SetFrame(w, i, [f EXCEPT !.results = results]), i,
                          PartialTransition("", VList(results)))
       ELSE IF kind = "MapReduceStep"
       THEN LET acc == Reduce(CurrentStep(t, f).reduce, f.acc, ChildOutput(c))
                g == [f EXCEPT !.results = results, !.acc = acc]
            IN IF Len(results) < Len(f.items)
               THEN Spawn(SetFrame(w, i, g), i, "child", CurrentStep(t, f).map, 0,
                          VInt(f.items[Len(results) + 1]), f.user_state, "await_child")
               ELSE ToCommit(SetFrame(w, i, g), i, PartialTransition("", acc))
       ELSE ToCommit(w, i, PartialTransition("", c.result))

\* run, step 5a: the transition after the step is committed (final_state).
\* A run that goes on calls save_inputs_remote with the committed output
\* and awaits its answer.
RunTransition(t, w, i) ==
    LET f == w.fr[i]
    IN IF f.final.type \in {"finish", "finish_branch", "cancelled"}
       THEN Return(w, i, f.final.output)
       ELSE IF f.final.next = NoTarget
       THEN Fail(w, i, "No next step", "no_next")
       ELSE SetFrame(w, i, [f EXCEPT !.pc = "save"])

\* the transition the run awaits is resolved, validated and appended, and
\* returns; the run goes on from its await.  A transition the engine
\* rejects raises in the run.
TransitionReturned(t, w, i) ==
    LET p == w.fr[i].pending
        r == transition(t, w, i, p.state, p.last_error)
        v == SetFrame(r.w, i, [r.w.fr[i] EXCEPT !.final = r.final,
                                                !.pending = NoPending])
    IN IF ~r.ok
       THEN Fail(w, i, "IllegalTransition", "transition")
       ELSE CASE p.then = "init" -> RunDispatch(t, v, i)
              [] p.then = "activity_raised" ->
                    Fail(v, i, "Activity threw error", "activity_raised")
              [] p.then = "outcome_error" ->
                    Fail(v, i, "Step threw error", "outcome_error")
              [] p.then = "unhandled" ->
                    Fail(v, i, "Not implemented", "handler_raised")
              [] p.then = "return" -> Returned(t, v, i)
              [] p.then = "error_step" ->
                    Fail(v, i, "Error raised by ErrorWorkflowStep", "handler_raised")
              [] p.then = "yield" -> YieldChild(t, v, i)
              [] p.then = "suspend" ->
                    \* raise_complete_async stays open until the caller completes it
                    SetFrame(v, i, [v.fr[i] EXCEPT !.pc = "suspended"])
              [] p.then = "step" -> RunTransition(t, v, i)

\* the activity save_inputs_remote([value]) -> [blob_ref]: the reference to
\* the stored value
save_inputs_remote(val) == [val EXCEPT !.ref = TRUE]

\* continue_as_child: the user_state given replaces the carried one
CarriedState(f) ==
    IF f.state.user_state = UnsetVal THEN f.user_state ELSE f.state.user_state

\* run, step 5b: continue as a child workflow at the next cursor, with the
\* stored input
RunContinue(t, w, i) ==
    LET f == w.fr[i]
    IN Spawn(w, i, "cont", f.final.next.workflow, f.final.next.step,
             f.stored, CarriedState(f), "await_cont")

\* run, step 5b: the await of save_inputs_remote is over.  The activity
\* raised, and the run fails with what it raised; or it answered with the
\* reference, which the run hands to continue_as_child, whose end it awaits.
RunSave(t, w, i, raised) ==
    LET f == w.fr[i]
    IN IF raised
       THEN Fail(w, i, "save_inputs_remote", "save_raised")
       ELSE RunContinue(t, SetFrame(w, i, [f EXCEPT !.stored =
                                               save_inputs_remote(f.final.output)]), i)

\* the continuation has ended: the run returns what it returned
ContinuationEnded(w, i) ==
    LET f == w.fr[i]
        c == w.fr[f.child]
    IN IF c.pc = "done" THEN Return(w, i, c.result)
       ELSE Fail(w, i, c.err, "child_failed")

\* run i observes the cancellation of its workflow: the awaited call raises.
\* A cancelled step activity may surface as an ActivityError, which the
\* except clause around the activity catches; any other await lets the
\* cancellation through.
Cancelled(t, w, i, asActivityError) ==
    LET f == w.fr[i]
    IN IF asActivityError /\ f.pc = "dispatch"
            /\ STEP_TO_ACTIVITY(CurrentStep(t, f).kind) # ""
       THEN RunActivity(t, w, i, Raises("Cancelled"))
       ELSE SetFrame(w, i, [f EXCEPT !.pc = "cancelled", !.cause = "cancelled"])

\* the cancellation reaches runs i, i+1, ...
RECURSIVE CancelAll(_, _, _, _)
CancelAll(t, w, i, asActivityError) ==
    IF i > Len(w.fr) THEN w
    ELSE CancelAll(t,
                   IF w.fr[i].pc \in Ended THEN w
                   ELSE Cancelled(t, w, i, asActivityError),
                   i + 1, asActivityError)

-----------------------------------------------------------------------------
(* The state machine *)

W == World(log, frames, nsig)

Live(i) == i \in 1..Len(frames) /\ frames[i].pc \notin Ended

Apply(r, tr) ==
    /\ Len(r.fr) <= MaxFrames
    /\ log' = r.log
    /\ frames' = r.fr
    /\ twin' = tr
    /\ writers' = writers

InitialInput == VInt(0)

\* the start of an execution of one of the given tasks
Start(tasks) ==
    /\ task \in tasks
    /\ log = <<>>
    /\ frames = <<NewFrame(1, 0, "root", 1, "main", 0, InitialInput, EmptyState)>>
    /\ nsig = 0
    /\ cancelled = FALSE
    /\ twin = World(<<>>, frames, 0)
    /\ writers = <<>>

Init == Start(Tasks)

Begin(i) ==
    /\ frames[i].pc = "begin"
    /\ Apply(RunInit(task, W, i), RunInit(task, twin, i))
    /\ UNCHANGED <<task, nsig, cancelled>>

Dispatch(i) ==
    /\ frames[i].pc = "dispatch"
    /\ \E oc \in Outcomes(CurrentStep(task, frames[i]), frames[i].current_input) :
          Apply(RunActivity(task, W, i, oc), RunActivity(task, twin, i, oc))
    /\ UNCHANGED <<task, nsig, cancelled>>

Resume(i) ==
    /\ frames[i].pc \in {"suspended", "sleeping"}
    /\ \E payload \in (IF frames[i].pc = "sleeping" THEN {frames[i].current_input}
                       ELSE ResumeInputs) :
          Apply(Resumed(task, W, i, payload), Resumed(task, twin, i, payload))
    /\ UNCHANGED <<task, nsig, cancelled>>

ChildReturn(i) ==
    /\ frames[i].pc = "await_child"
    /\ frames[frames[i].child].pc \in Ended
    /\ Apply(ChildEnded(task, W, i), ChildEnded(task, twin, i))
    /\ UNCHANGED <<task, nsig, cancelled>>

\* the transition run i awaits commits and returns
Commit(i) ==
    /\ frames[i].pc \in {"transition", "commit"}
    /\ Apply(TransitionReturned(task, W, i), TransitionReturned(task, twin, i))
    /\ UNCHANGED <<task, nsig, cancelled>>

\* the activity save_inputs_remote that run i awaits ends, raising or not
Save(i) ==
    /\ frames[i].pc = "save"
    /\ \E raised \in BOOLEAN :
          Apply(RunSave(task, W, i, raised), RunSave(task, twin, i, raised))
    /\ UNCHANGED <<task, nsig, cancelled>>

ContinuationReturn(i) ==
    /\ frames[i].pc = "await_cont"
    /\ frames[frames[i].child].pc \in Ended
    /\ Apply(ContinuationEnded(W, i), ContinuationEnded(twin, i))
    /\ UNCHANGED <<task, nsig, cancelled>>

\* the prompt_step activity answers the handler's second dispatch
Redispatch(i) ==
    /\ frames[i].pc = "redispatch"
    /\ \E new_response \in SecondResponses :
          Apply(PromptAgain(task, W, i, new_response),
                PromptAgain(task, twin, i, new_response))
    /\ UNCHANGED <<task, nsig, cancelled>>

\* the activity of an integration, api_call or system tool answers
CallTool(i) ==
    /\ frames[i].pc = "await_tool"
    /\ \E raised \in BOOLEAN :
          \E r \in IF raised THEN {Null} ELSE ToolResponses :
             Apply(ToolReturned(task, W, i, raised, r),
                   ToolReturned(task, twin, i, raised, r))
    /\ UNCHANGED <<task, nsig, cancelled>>

\* a parallel map-reduce step starts the map child of its next item
MapStart(i) ==
    /\ frames[i].pc = "await_children"
    /\ Len(MapChildren(W, i)) < Len(frames[i].items)
    /\ \A c \in 1..Len(frames) : frames[c].parent = i => frames[c].pc # "failed"
    /\ SemaphoreFree(task, W, i)
    /\ Apply(StartMap(task, W, i), StartMap(task, twin, i))
    /\ UNCHANGED <<task, nsig, cancelled>>

\* every map child of a parallel map-reduce step has returned
MapCollect(i) ==
    /\ frames[i].pc = "await_children"
    /\ Len(MapChildren(W, i)) = Len(frames[i].items)
    /\ \A c \in 1..Len(frames) : frames[c].parent = i => frames[c].pc = "done"
    /\ Apply(CollectMaps(task, W, i), CollectMaps(task, twin, i))
    /\ UNCHANGED <<task, nsig, cancelled>>

\* a map child of a parallel map-reduce step has failed
MapChildFailed(i) ==
    /\ frames[i].pc = "await_children"
    /\ \E c \in 1..Len(frames) : frames[c].parent = i /\ frames[c].pc = "failed"
    /\ Apply(MapFailed(W, i), MapFailed(twin, i))
    /\ UNCHANGED <<task, nsig, cancelled>>

\* a set_last_error signal reaches run i
SetLastError(i) ==
    /\ Live(i)
    /\ nsig < MaxSignals
    /\ nsig' = nsig + 1
    /\ frames' = [frames EXCEPT ![i] = set_last_error(frames[i], nsig + 1)]
    /\ UNCHANGED <<task, log, cancelled, twin, writers>>

\* the execution's workflow is cancelled: every live run observes it
Cancel ==
    /\ ~cancelled
    /\ Live(1)
    /\ cancelled' = TRUE
    /\ \E asActivityError \in BOOLEAN :
          Apply(CancelAll(task, W, 1, asActivityError),
                CancelAll(task, twin, 1, asActivityError))
    /\ UNCHANGED <<task, nsig>>

\* the driver's own steps
DriverNext ==
    \/ \E i \in 1..Len(frames) : Begin(i)
    \/ \E i \in 1..Len(frames) : Dispatch(i)
    \/ \E i \in 1..Len(frames) : Resume(i)
    \/ \E i \in 1..Len(frames) : ChildReturn(i)
    \/ \E i \in 1..Len(frames) : Commit(i)
    \/ \E i \in 1..Len(frames) : Save(i)
    \/ \E i \in 1..Len(frames) : ContinuationReturn(i)

\* the steps of parallel map-reduce
MapNext ==
    \/ \E i \in 1..Len(frames) : MapStart(i)
    \/ \E i \in 1..Len(frames) : MapCollect(i)
    \/ \E i \in 1..Len(frames) : MapChildFailed(i)

\* executions that may be cancelled and receive no set_last_error signal
Next == DriverNext \/ Cancel

Spec == Init /\ [][Next]_vars

\* executions that receive set_last_error signals at arbitrary points
InitSignals == Start(SignalTasks)

NextSignals == DriverNext \/ \E i \in 1..Len(frames) : SetLastError(i)

SpecSignals == InitSignals /\ [][NextSignals]_vars

\* executions of map-reduce steps, serial and parallel
InitMap == Start(MapTasks)

NextMap == DriverNext \/ MapNext

SpecMap == InitMap /\ [][NextMap]_vars

\* the tasks without yield step
HasYield(t) ==
    \E n \in WorkflowNames : \E k \in 1..Len(t[n]) : t[n][k].kind = "YieldStep"

LiveTasks == {t \in Tasks : ~HasYield(t)}

\* executions of tasks without yield step, never cancelled, under fair
\* scheduling: a step of the driver that can be taken is eventually taken,
\* so every dispatched activity answers, every suspension is resumed and
\* every child that ended is seen by its parent
InitLive == Start(LiveTasks)

SpecLive == InitLive /\ [][DriverNext]_vars /\ WF_vars(DriverNext)

\* executions of prompt and tool-call steps
InitTools == Start(ToolTasks)

NextTools ==
    \/ DriverNext
    \/ \E i \in 1..Len(frames) : Redispatch(i)
    \/ \E i \in 1..Len(frames) : CallTool(i)

SpecTools == InitTools /\ [][NextTools]_vars

\* the log a continued-as-new root run finds: its predecessor's init
PriorLog(t) ==
    LET f == NewFrame(1, 0, "root", 1, "main", 0, InitialInput, EmptyState)
        l == TransitionReturned(t, RunInit(t, World(<<>>, <<f>>, 0), 1), 1).log
    IN [p \in 1..Len(l) |-> [l[p] EXCEPT !.by = 0]]

\* executions whose root run may be one that Temporal continued as new
InitResumed ==
    /\ task \in SignalTasks
    /\ \E c \in BOOLEAN :
          /\ frames = <<[NewFrame(1, 0, "root", 1, "main", 0, InitialInput, EmptyState)
                            EXCEPT !.continued_as_new = c]>>
          /\ log = IF c THEN PriorLog(task) ELSE <<>>
    /\ nsig = 0
    /\ cancelled = FALSE
    /\ twin = World(log, frames, 0)
    /\ writers = <<>>

SpecResumed == InitResumed /\ [][DriverNext]_vars

\* what the engine makes of the transition run i is about to commit
PendingCommit(i) ==
    LET p == frames[i].pending
    IN transition(task, W, i, p.state, p.last_error)

\* the entry of that transition
PendingEntry(i) == PendingCommit(i).w.log[Len(PendingCommit(i).w.log)]

\* two writers set out to commit the transition of run i, both knowing the
\* same last seq of its execution's log
StartWriters(i) ==
    /\ writers = <<>>
    /\ frames[i].pc = "commit"
    /\ PendingCommit(i).ok
    /\ LET wr == [entry |-> PendingEntry(i),
                  from_seq |-> NextSeq(log, frames[i].scope),
                  before |-> Len(log), result |-> "pending"]
       IN writers' = <<wr, wr>>
    /\ UNCHANGED <<task, log, frames, nsig, cancelled, twin>>

\* writer k's append reaches the log
AppendAttempt(k) ==
    /\ writers[k].result = "pending"
    /\ LET a == append(log, writers[k].entry, writers[k].from_seq)
       IN /\ log' = a.log
          /\ writers' = [writers EXCEPT
                            ![k].result = IF a.ok THEN "ok" ELSE "Conflict"]
    /\ UNCHANGED <<task, frames, nsig, cancelled, twin>>

\* executions in which the commit of some step is attempted by two writers
NextAppend ==
    \/ writers = <<>> /\ DriverNext
    \/ \E i \in 1..Len(frames) : StartWriters(i)
    \/ \E k \in 1..Len(writers) : AppendAttempt(k)

SpecAppend == Init /\ [][NextAppend]_vars

-----------------------------------------------------------------------------
(* Properties *)

\* the step run i executes
StepKind(i) == CurrentStep(task, frames[i]).kind

\* run i awaits the transition it called for the given continuation
Awaits(i, then) == frames[i].pc \in {"transition", "commit"} /\ frames[i].pending.then = then

\* run i was cancelled while it awaited that transition
CancelledAwaiting(i, then) ==
    frames[i].pc = "cancelled" /\ frames[i].pending.then = then

\* the runs that start an execution: the root run and the first run of every
\* child execution (a continuation stays in the execution of its parent)
Executions == {i \in 1..Len(frames) : frames[i].rel # "cont"}

\* C1: for every execution, the sequence numbers of its committed transitions
\* are exactly 0, 1, ..., n in commit order.
SeqNumbersAreConsecutive ==
    \A x \in Executions :
        LET es == ScopeEntries(log, x)
        IN \A j \in 1..Len(es) : es[j].seq = j - 1

\* C1 happens: a parent and a child execution have both committed several
\* transitions, interleaved in the log.
SeqNumbersWitness ==
    \E x \in Executions :
        /\ x # 1
        /\ Len(ScopeEntries(log, x)) >= 2
        /\ Len(ScopeEntries(log, 1)) >= 3

\* C2: an execution that has ended (here: by success or by failure) has
\* exactly one terminal transition, and it is the last transition of its log.
ExactlyOneTerminal ==
    \A x \in Executions :
        frames[x].pc \in {"done", "failed"} =>
            LET es == ScopeEntries(log, x)
            IN /\ es # <<>>
               /\ es[Len(es)].type \in TerminalTypes
               /\ \A j \in 1..(Len(es) - 1) : es[j].type \notin TerminalTypes

\* the successor table, as pairs (type of the earlier, type of the later)
SuccessorTable ==
    ({"init", "init_branch"} \X {"wait", "step", "error", "cancelled"})
        \cup ({"wait"} \X {"resume", "step", "error", "cancelled"})
        \cup ({"resume", "step"}
                \X {"wait", "step", "error", "cancelled", "finish", "finish_branch"})

\* C3: every pair of consecutive transitions of an execution's log is a pair
\* of the successor table, whatever step committed them (a YieldStep's
\* transition type comes from its outcome).
ConsecutivePairsAreLegal ==
    \A x \in Executions :
        LET es == ScopeEntries(log, x)
        IN \A j \in 1..(Len(es) - 1) : <<es[j].type, es[j + 1].type>> \in SuccessorTable

\* C3 happens: a YieldStep has committed the transition its outcome named,
\* after the init_branch of its execution, and its run has ended.
ConsecutivePairsWitness ==
    \E j \in 1..Len(log) :
        /\ StepKind(log[j].by) = "YieldStep"
        /\ log[j].type = "step"
        /\ log[j].seq = 1
        /\ frames[log[j].by].pc \in Ended
        /\ \E k \in 1..(j - 1) :
              log[k].scope = log[j].scope /\ log[k].type = "init_branch"

\* C4: a run that fails because its step's activity raised, its outcome
\* carries an error, or its handler raised has committed an error transition.
ErrorCommittedBeforeFailure ==
    \A i \in 1..Len(frames) :
        (frames[i].pc = "failed"
            /\ frames[i].cause \in {"activity_raised", "outcome_error", "handler_raised"})
        => \E j \in 1..Len(log) : log[j].by = i /\ log[j].type = "error"

\* the transitions run i committed for its step (all but init / init_branch)
StepCommits(i) ==
    SelectSeq(log, LAMBDA e : e.by = i /\ e.type \notin {"init", "init_branch"})

\* the type of the latest transition of the scope of run i when the run
\* asked for the transitions of its step ("" when the scope had none)
LatestBefore(i) ==
    LET es == ScopeEntries(log, frames[i].scope)
        own == StepCommits(i)
    IN IF own = <<>>
       THEN LatestType(log, frames[i].scope)
       ELSE IF own[1].seq = 0 THEN "" ELSE es[own[1].seq].type

CompositeKinds == {"IfElseWorkflowStep", "SwitchStep", "ForeachStep", "MapReduceStep"}

\* the child executions run i started
ChildrenOf(i) == {c \in 1..Len(frames) : frames[c].parent = i /\ frames[c].rel = "child"}

\* C6: when a composite step commits its post-step transition, every child
\* execution it started has already committed finish_branch.
ChildrenFinishBeforeParent ==
    \A p \in 1..Len(log) :
        (StepKind(log[p].by) \in CompositeKinds
            /\ log[p].type \notin {"init", "init_branch"})
        => \A c \in ChildrenOf(log[p].by) :
              \E q \in 1..(p - 1) : log[q].scope = c /\ log[q].type = "finish_branch"

\* C6 happens: a foreach step with two iterations has committed its post-step
\* transition.
ChildrenFinishWitness ==
    \E p \in 1..Len(log) :
        /\ log[p].type = "step"
        /\ StepKind(log[p].by) = "ForeachStep"
        /\ Cardinality(ChildrenOf(log[p].by)) = 2

\* C7: the run of step k > 0 sees the user_state the run of step k-1 saw, or
\* the outcome of step k-1 if that was a SetStep; and a GetStep's run that
\* ended without being cancelled has committed the value the user_state
\* holds for its key.
UserStateFlowsAndIsReadable ==
    /\ \A i \in 1..Len(frames) :
          frames[i].rel = "cont" =>
              LET p == frames[i].parent
              IN frames[i].user_state =
                    (IF StepKind(p) = "SetStep" THEN frames[p].outcome.output
                     ELSE frames[p].user_state)
    /\ \A i \in 1..Len(frames) :
          (StepKind(i) = "GetStep" /\ frames[i].pc \in {"done", "failed"}) =>
              \E j \in 1..Len(log) :
                  /\ log[j].by = i
                  /\ log[j].output =
                        MemoValue(frames[i].user_state, CurrentStep(task, frames[i]).get)

\* C8: once a cancelled execution has no run left running, its log holds a
\* cancelled transition.
CancelCommitsCancelled ==
    (cancelled /\ \A i \in 1..Len(frames) : frames[i].pc \in Ended)
        => \E j \in 1..Len(log) : log[j].scope = 1 /\ log[j].type = "cancelled"

\* C9: every committed transition carries the value of the latest
\* set_last_error signal delivered before the commit (signals carry 1, 2, ...
\* in delivery order; 0 is the empty value).
CommitsCarryLastError ==
    \A j \in 1..Len(log) : log[j].last_error = log[j].nsig

\* an execution with every recorded last_error value blanked
Strip(w) ==
    [log |-> [j \in 1..Len(w.log) |-> [w.log[j] EXCEPT !.last_error = 0, !.nsig = 0]],
     fr |-> [j \in 1..Len(w.fr) |->
                [w.fr[j] EXCEPT !.last_error = 0, !.pending.last_error = 0]],
     nsig |-> 0]

\* C10: but for the recorded last_error values, an execution that receives
\* set_last_error signals equals, at every point, the same execution fed the
\* same inputs without the signals: same transitions (types, cursors,
\* outputs), same runs, same results and failures.
SignalsChangeOnlyLastError == Strip(W) = twin

\* C10 happens: signals arrived during the execution, a later commit carries a
\* signalled value, and the execution has finished.
SignalsWitness ==
    /\ nsig = MaxSignals
    /\ frames[1].pc = "done"
    /\ \E j \in 1..Len(log) : log[j].last_error > 0 /\ log[j].type = "finish"

\* the writers whose append ended with the given result
WritersWith(result) == {k \in 1..Len(writers) : writers[k].result = result}

\* C11: of two writers appending the same transition against the same
\* last-known seq, never more than one succeeds; once both have answered,
\* one succeeded, the other got Conflict, and the log gained exactly one
\* entry, with that seq.
ConcurrentAppendOnce ==
    writers # <<>> =>
        /\ writers[1].from_seq = writers[2].from_seq
        /\ Cardinality(WritersWith("ok")) <= 1
        /\ Len(log) = writers[1].before + Cardinality(WritersWith("ok"))
        /\ WritersWith("pending") = {} =>
              /\ Cardinality(WritersWith("ok")) = 1
              /\ Cardinality(WritersWith("Conflict")) = 1
              /\ log[Len(log)] = writers[1].entry

\* C11 happens: both writers have answered, on a log that already held
\* transitions of a parent and of a child execution.
ConcurrentAppendWitness ==
    /\ writers # <<>>
    /\ WritersWith("pending") = {}
    /\ writers[1].from_seq >= 1
    /\ writers[1].entry.scope # 1

\* the runs of map-reduce steps whose handler has produced the step's result
MapResults ==
    {i \in 1..Len(frames) :
        StepKind(i) = "MapReduceStep" /\ frames[i].handled /\ frames[i].state # NoState}

\* C12: with deterministic map steps (here each map returns its item), the
\* output of a map-reduce step is the reduce expression folded over the
\* items from initial, whatever its parallelism (unset, 1 or more): the
\* parallel implementation yields what the serial one yields.
MapReduceIgnoresParallelism ==
    \A i \in MapResults :
        LET st == CurrentStep(task, frames[i])
        IN frames[i].state.output =
              ReduceAll(st.reduce, st.initial, frames[i].outcome.output.v)

\* C12 happens: a map-reduce step with parallelism 2 has committed the
\* reduction of three items under a reduce expression that depends on order.
MapReduceParallelWitness ==
    \E p \in 1..Len(log) :
        /\ StepKind(log[p].by) = "MapReduceStep"
        /\ CurrentStep(task, frames[log[p].by]).parallelism = 2
        /\ log[p].type = "step"
        /\ log[p].output = VInt(7123)

\* the map child of run i that was given the item as its input
MapChildOf(i, item) ==
    CHOOSE c \in ChildrenOf(i) : frames[c].current_input = VInt(item)

\* C13: for a map-reduce step with parallelism > 1, in whatever order the map
\* children completed, the k-th collected output is the output of the child
\* run on the k-th item, and the step's output is the reduce expression
\* folded over the collected outputs left to right from initial.
MapOutputsInItemOrder ==
    \A i \in MapResults :
        LET st == CurrentStep(task, frames[i])
            items == frames[i].outcome.output.v
        IN st.parallelism > 1 =>
              /\ Len(frames[i].results) = Len(items)
              /\ \A k \in 1..Len(items) :
                    /\ \E c \in ChildrenOf(i) : frames[c].current_input = VInt(items[k])
                    /\ frames[i].results[k] = ChildOutput(frames[MapChildOf(i, items[k])])
              /\ frames[i].state.output = ReduceAll(st.reduce, st.initial, frames[i].results)

\* the position in the log of the finish_branch of child execution c (0 if none)
FinishedAt(c) ==
    IF \E q \in 1..Len(log) : log[q].scope = c /\ log[q].type = "finish_branch"
    THEN CHOOSE q \in 1..Len(log) : log[q].scope = c /\ log[q].type = "finish_branch"
    ELSE 0

\* C13 happens: the outputs were collected although the child of the second
\* item completed before the child of the first.
MapOutOfOrderWitness ==
    \E i \in MapResults :
        /\ CurrentStep(task, frames[i]).parallelism > 1
        /\ Len(frames[i].results) >= 2
        /\ FinishedAt(MapChildOf(i, 2)) < FinishedAt(MapChildOf(i, 1))

\* C14: for a map-reduce step with parallelism p > 1, at most p of its map
\* children are started and not yet terminated.
MapChildrenBounded ==
    \A i \in 1..Len(frames) :
        (StepKind(i) = "MapReduceStep"
            /\ CurrentStep(task, frames[i]).parallelism > 1)
        => Cardinality({c \in ChildrenOf(i) : frames[c].pc \notin Ended})
              <= CurrentStep(task, frames[i]).parallelism

\* C14 happens: with three items and parallelism 2, two map children are
\* running while the third has not started, and later the third runs.
MapChildrenBoundedWitness ==
    \E i \in 1..Len(frames) :
        /\ StepKind(i) = "MapReduceStep"
        /\ CurrentStep(task, frames[i]).parallelism = 2
        /\ Len(frames[i].items) = 3
        /\ Cardinality(ChildrenOf(i)) = 3
        /\ Cardinality({c \in ChildrenOf(i) : frames[c].pc \notin Ended}) = 2

\* the runs of foreach steps whose handler has been entered
ForeachRuns == {i \in 1..Len(frames) : StepKind(i) = "ForeachStep" /\ frames[i].handled}

\* C15: a foreach step runs its do workflow as one child execution per item,
\* in item order and one at a time (a child is started only when all the
\* children before it have returned), the child's input being the item; once
\* the step has its result, there are as many children as items and the
\* output is the list of their outputs in item order.
ForeachRunsItemsInOrder ==
    \A i \in ForeachRuns :
        LET items == frames[i].outcome.output.v
            cs == Ascending(ChildrenOf(i))
        IN /\ Len(cs) <= Len(items)
           /\ \A k \in 1..Len(cs) :
                 /\ frames[cs[k]].workflow = CurrentStep(task, frames[i]).do
                 /\ frames[cs[k]].step = 0
                 /\ frames[cs[k]].current_input = VInt(items[k])
                 /\ k < Len(cs) => frames[cs[k]].pc = "done"
           /\ frames[i].state # NoState =>
                 /\ Len(cs) = Len(items)
                 /\ frames[i].state.output = VList([k \in 1..Len(items) |-> ChildOutput(frames[cs[k]])])

\* C15 happens: a foreach step over two items has committed the list of the
\* two outputs of its children.
ForeachWitness ==
    \E p \in 1..Len(log) :
        /\ log[p].by \in ForeachRuns
        /\ log[p].type = "step"
        /\ Len(frames[log[p].by].outcome.output.v) = 2
        /\ log[p].output.k = "list"
        /\ Len(log[p].output.v) = 2
        /\ \A c \in ChildrenOf(log[p].by) : frames[c].pc = "done"

\* C16: a foreach step over an empty list starts no child execution (so no
\* init_branch and no finish_branch is committed for it), its result is the
\* empty list with the default type, and the transition it commits is a step
\* with output [] whose next cursor is the following step.
EmptyForeachSkips ==
    \A i \in ForeachRuns :
        frames[i].outcome.output.v = <<>> =>
            /\ ChildrenOf(i) = {}
            /\ \A p \in 1..Len(log) : log[p].scope = frames[i].scope
            /\ frames[i].state = PartialTransition("", VList(<<>>))
            /\ frames[i].pc \in {"save", "await_cont", "done", "failed"} =>
                  /\ Len(StepCommits(i)) = 1
                  /\ StepCommits(i)[1].type = "step"
                  /\ StepCommits(i)[1].output = VList(<<>>)
                  /\ StepCommits(i)[1].next = Target(frames[i].workflow, frames[i].step + 1)

\* C16 happens: after a foreach step over an empty list, the next step of
\* the parent has run with [] as its input and the execution has finished.
EmptyForeachWitness ==
    \E i \in ForeachRuns :
        /\ frames[i].outcome.output.v = <<>>
        /\ frames[i].pc = "done"
        /\ frames[frames[i].child].rel = "cont"
        /\ frames[frames[i].child].step = frames[i].step + 1
        /\ frames[frames[i].child].current_input = save_inputs_remote(VList(<<>>))
        /\ log[Len(log)].type = "finish"

\* the runs of switch steps whose handler has been entered
SwitchRuns == {i \in 1..Len(frames) : StepKind(i) = "SwitchStep" /\ frames[i].handled}

\* the index the switch_step activity answered to run i
SwitchIndex(i) == frames[i].outcome.output.v[1]

\* the run has committed its transition after the step, or failed
PastCommit(i) == frames[i].pc \in {"save", "await_cont", "done", "failed"}

\* C17 (as the specification states it): when the index of a switch step is
\* 0, no branch is run, the one transition committed for the step is a step
\* with null output, and its next cursor is the following step.
SwitchZeroAdvances ==
    \A i \in SwitchRuns :
        SwitchIndex(i) = 0 =>
            /\ ChildrenOf(i) = {}
            /\ PastCommit(i) =>
                  /\ Len(StepCommits(i)) = 1
                  /\ StepCommits(i)[1].type = "step"
                  /\ StepCommits(i)[1].output = Null
                  /\ StepCommits(i)[1].next = Target(frames[i].workflow, frames[i].step + 1)

\* the task whose main workflow is one switch step
OneSwitchTask == task["main"] = <<SwitchStep(<<"b1", "b2">>)>>

\* C18 (as the specification states it): for a main workflow of one switch
\* step whose index is negative, no branch is run, the execution fails and
\* its log is init followed by an error carrying the message.
NegativeSwitchLogsError ==
    (OneSwitchTask /\ 1 \in SwitchRuns /\ SwitchIndex(1) < 0) =>
        /\ ChildrenOf(1) = {}
        /\ frames[1].pc = "failed"
        /\ [p \in 1..Len(log) |-> log[p].type] = <<"init", "error">>
        /\ log[Len(log)].output = VStr("Negative indices not allowed")

\* C19: when the index n of a switch step is greater than 0, the step starts
\* exactly one child execution, at the first step of the n-th branch of the
\* switch counted from one (branch n-1 counted from zero), with the step's
\* current input; the step's result has the default type and the child's
\* final output as its output.
SwitchRunsOneBranch ==
    \A i \in SwitchRuns :
        SwitchIndex(i) > 0 =>
            /\ Cardinality(ChildrenOf(i)) = 1
            /\ \A c \in ChildrenOf(i) :
                  /\ frames[c].workflow = CurrentStep(task, frames[i]).switch[SwitchIndex(i)]
                  /\ frames[c].step = 0
                  /\ frames[c].current_input = frames[i].current_input
                  /\ frames[i].state # NoState =>
                        /\ frames[c].pc = "done"
                        /\ frames[i].state = PartialTransition("", frames[c].result)

\* C19 happens: a switch step with index 2 has the result of its second
\* branch, which finished.
SwitchBranchWitness ==
    \E i \in SwitchRuns :
        /\ SwitchIndex(i) = 2
        /\ frames[i].state # NoState
        /\ \E c \in ChildrenOf(i) :
              /\ frames[c].workflow = "b2"
              /\ frames[c].pc = "done"
              /\ frames[i].state.output = frames[c].result

\* the task whose main workflow is a log step followed by a return step
LogReturnTask == task["main"] = <<LogStep("hi"), ReturnStep>>

\* C20: when the main workflow [LogStep, ReturnStep] has run to its end on
\* input x, the log is init, step, finish: the step's output is x and its
\* metadata the log line, the finish's output is what the return step's
\* activity answered, which is what the execution returns.
LogThenReturn ==
    (LogReturnTask /\ frames[1].pc = "done") =>
        /\ [p \in 1..Len(log) |-> log[p].type] = <<"init", "step", "finish">>
        /\ log[2].output = InitialInput
        /\ log[2].metadata = "hi"
        /\ log[2].by = 1
        /\ log[3].output = frames[log[3].by].outcome.output
        /\ log[3].output = frames[1].result
        /\ frames[log[3].by].current_input = save_inputs_remote(InitialInput)

\* C20 happens: the execution of [LogStep, ReturnStep] has finished.
LogThenReturnWitness ==
    /\ LogReturnTask
    /\ frames[1].pc = "done"
    /\ Len(log) = 3
    /\ log[3].type = "finish"

\* the task whose main workflow is a sleep of one second followed by a return
SleepReturnTask ==
    task["main"] = <<SleepStep([NoSleep EXCEPT !.seconds = 1]), ReturnStep>>

\* no activity raised or answered an error, and nobody cancelled
NothingWentWrong ==
    /\ ~cancelled
    /\ \A i \in 1..Len(frames) :
          ~frames[i].answer.raised /\ frames[i].answer.error = Null

\* C21 (as the specification states it): when the main workflow
\* [SleepStep, ReturnStep] has ended and nothing went wrong outside it, the
\* log is init, step, finish and the sleep step's output is its input.
SleepThenReturn ==
    (SleepReturnTask /\ frames[1].pc \in Ended /\ NothingWentWrong) =>
        /\ [p \in 1..Len(log) |-> log[p].type] = <<"init", "step", "finish">>
        /\ log[2].output = InitialInput

\* the init and init_branch transitions run i committed
InitCommits(i) ==
    SelectSeq(log, LAMBDA e : e.by = i /\ e.type \in {"init", "init_branch"})

\* the position in the log of the first transition run i committed (0 if none)
FirstCommitOf(i) ==
    IF \E p \in 1..Len(log) : log[p].by = i
    THEN CHOOSE p \in 1..Len(log) :
            log[p].by = i /\ \A q \in 1..(p - 1) : log[q].by # i
    ELSE 0

\* C25: a run that has built its context and is past its first stage, and
\* so may dispatch its step's activity, has committed init (main workflow)
\* or init_branch (any other workflow) with its current input as output and
\* its cursor as next, as its first transition, exactly when its cursor is
\* at the first step and it was not continued as new; any other run has
\* committed no init and no init_branch, and no run fails at this stage.
InitExactlyAtFirstStep ==
    \A i \in 1..Len(frames) :
        (frames[i].pc # "begin" /\ ~Awaits(i, "init") /\ frames[i].cause # "no_task") =>
            /\ ~(frames[i].cause = "transition" /\ ~frames[i].handled
                    /\ frames[i].answer = NoOutcome)
            /\ IF frames[i].step = 0 /\ ~frames[i].continued_as_new
               THEN /\ Len(InitCommits(i)) = 1
                    /\ log[FirstCommitOf(i)] = InitCommits(i)[1]
                    /\ InitCommits(i)[1].type =
                          (IF frames[i].workflow = "main" THEN "init" ELSE "init_branch")
                    /\ InitCommits(i)[1].output = frames[i].current_input
                    /\ InitCommits(i)[1].next = Cursor(frames[i])
               ELSE InitCommits(i) = <<>>

\* C25 happens: a root run continued as new at the first step has gone
\* through its step without committing init, a child execution has
\* committed init_branch, and a continuation at a later step has run.
InitWitness ==
    /\ frames[1].continued_as_new
    /\ frames[1].step = 0
    /\ frames[1].handled
    /\ \E c \in 2..Len(frames) :
          frames[c].rel = "child" /\ frames[c].handled /\ Len(InitCommits(c)) = 1
    /\ \E c \in 2..Len(frames) :
          frames[c].rel = "cont" /\ frames[c].step > 0 /\ frames[c].handled

\* the continuations run i started
ContinuationsOf(i) ==
    {c \in 1..Len(frames) : frames[c].parent = i /\ frames[c].rel = "cont"}

\* the transition run i committed at step 4 of run, after its handler
\* returned (NoFinal while it has committed none)
CommittedAfterStep(i) ==
    IF frames[i].state # NoState /\ frames[i].pc \in {"save", "await_cont", "done", "failed"}
          /\ frames[i].cause # "transition"
          /\ StepCommits(i) # <<>>
    THEN StepCommits(i)[Len(StepCommits(i))]
    ELSE [type |-> "", next |-> NoTarget, output |-> Null]

\* after a non-terminal transition: the output is stored first, then
\* exactly one continuation is started at the committed next cursor, with
\* the stored reference as input and the step's user_state
SavesThenContinues(i) ==
    /\ Cardinality(ContinuationsOf(i)) <= 1
    /\ frames[i].pc = "save" =>
          ContinuationsOf(i) = {} /\ frames[i].stored = UnsetVal
    /\ (CommittedAfterStep(i).type \notin TerminalTypes \cup {""}
            /\ frames[i].pc # "save" /\ frames[i].cause # "save_raised") =>
          /\ frames[i].stored # UnsetVal
          /\ Cardinality(ContinuationsOf(i)) = 1
    /\ frames[i].stored # UnsetVal =>
          /\ StepCommits(i) # <<>>
          /\ StepCommits(i)[Len(StepCommits(i))].output = frames[i].final.output
          /\ StepCommits(i)[Len(StepCommits(i))].next = frames[i].final.next
          /\ frames[i].stored = save_inputs_remote(frames[i].final.output)
    /\ \A c \in ContinuationsOf(i) :
          /\ frames[i].stored # UnsetVal
          /\ Cursor(frames[c]) = frames[i].final.next
          /\ frames[c].current_input = frames[i].stored
          /\ frames[c].user_state = CarriedState(frames[i])

\* C26 (as the specification states it): after the run has committed a
\* non-terminal transition for its step, it first stores the committed
\* output through save_inputs_remote and only then starts exactly one
\* continuation, at the committed next cursor, on the stored reference and
\* with the step's user_state; when the committed transition is terminal
\* (finish, finish_branch, error or cancelled), nothing is stored, no
\* continuation is started and the run returns the committed output.
TerminalReturnsOutput ==
    \A i \in 1..Len(frames) :
        /\ SavesThenContinues(i)
        /\ CommittedAfterStep(i).type \in TerminalTypes =>
              /\ frames[i].stored = UnsetVal
              /\ ContinuationsOf(i) = {}
              /\ frames[i].pc = "done"
              /\ frames[i].result = CommittedAfterStep(i).output

\* the runs of return steps whose handler has been entered
ReturnRuns == {i \in 1..Len(frames) : StepKind(i) = "ReturnStep" /\ frames[i].handled}

\* the type of the transition a return step asks for
ReturnType(i) == IF frames[i].workflow = "main" THEN "finish" ELSE "finish_branch"

\* the return step of run i has committed its one transition and returned
ReturnCommitted(i) ==
    /\ frames[i].pc = "done"
    /\ Len(StepCommits(i)) = 1
    /\ StepCommits(i)[1].type = ReturnType(i)
    /\ StepCommits(i)[1].next = NoTarget
    /\ StepCommits(i)[1].output = frames[i].outcome.output
    /\ frames[i].result = frames[i].outcome.output
    /\ ContinuationsOf(i) = {}
    /\ frames[i].stored = UnsetVal

\* the runs of return steps whose transition has returned or raised
ReturnEnded ==
    ReturnRuns \ {i \in 1..Len(frames) :
                     Awaits(i, "return") \/ CancelledAwaiting(i, "return")}

CommittedItsState(i) ==
    /\ frames[i].state # NoState
    /\ PastCommit(i)
    /\ frames[i].cause # "transition"

\* the runs whose handler returned a state with neither type nor next
DefaultRuns ==
    {i \in 1..Len(frames) :
        frames[i].state.type = "" /\ frames[i].state.next = UnsetTarget
            /\ frames[i].state # NoState}

\* the type and the next cursor the engine gives a state that names neither
ResolvedType(i) ==
    IF frames[i].step + 1 < Len(task[frames[i].workflow]) THEN "step"
    ELSE IF frames[i].workflow = "main" THEN "finish" ELSE "finish_branch"
ResolvedNext(i) ==
    IF frames[i].step + 1 < Len(task[frames[i].workflow])
    THEN Target(frames[i].workflow, frames[i].step + 1)
    ELSE NoTarget

\* the transition committed for the state of run i is the resolved one, and
\* at the last step of the workflow the run returns
DefaultCommitted(i) ==
    /\ frames[i].cause # "transition"
    /\ StepCommits(i) # <<>>
    /\ LET e == StepCommits(i)[Len(StepCommits(i))]
       IN /\ e.output = frames[i].state.output
          /\ e.type = ResolvedType(i)
          /\ e.next = ResolvedNext(i)
          /\ e.type \in {"finish", "finish_branch"} => frames[i].pc = "done"

ToolCallRuns ==
    {i \in 1..Len(frames) : StepKind(i) = "ToolCallStep" /\ frames[i].handled}

\* the tool the tool call of run i names is one of the context's tools
ToolKnown(i) == ToolName(frames[i].outcome.output) \in ContextTools

\* C22: the handler of a tool-call step invokes one activity, once, chosen
\* by the type of the tool call: raise_complete_async for function,
\* execute_integration for integration, execute_api_call for api_call,
\* execute_system for system (for integration and api_call, when the tool
\* is among the context's tools); the state it returns has the activity's
\* response as output, with type resume for function and no type (the
\* default) for the other three.
ToolTypeSelectsActivity ==
    \A i \in ToolCallRuns :
        LET ty == frames[i].outcome.output.s
            expected == CASE ty = "function" -> "raise_complete_async"
                          [] ty = "integration" -> "execute_integration"
                          [] ty = "api_call" -> "execute_api_call"
                          [] ty = "system" -> "execute_system"
        IN (ty \in ToolTypes /\ (ty \in {"integration", "api_call"} => ToolKnown(i))) =>
              /\ frames[i].calls = <<expected>>
              /\ frames[i].state # NoState =>
                    /\ frames[i].response \in ToolResponses \cup ResumeInputs
                    /\ frames[i].state =
                          PartialTransition(IF ty = "function" THEN "resume" ELSE "",
                                            frames[i].response)

\* C22 happens: the response of execute_integration has been committed as
\* the output of a step transition.
ToolCallWitness ==
    \E i \in ToolCallRuns :
        /\ frames[i].outcome.output.s = "integration"
        /\ frames[i].calls = <<"execute_integration">>
        /\ CommittedItsState(i)
        /\ StepCommits(i)[1].type = "step"
        /\ StepCommits(i)[1].output = frames[i].response

\* C23: a tool-call step of type integration or api_call whose tool is not
\* among the context's tools fails with "Integration <name> not found",
\* without invoking any activity and without returning a state.
MissingToolFails ==
    \A i \in ToolCallRuns :
        (frames[i].outcome.output.s \in {"integration", "api_call"} /\ ~ToolKnown(i)) =>
            /\ frames[i].pc = "failed"
            /\ frames[i].err = "Integration t9 not found"
            /\ frames[i].calls = <<>>
            /\ frames[i].state = NoState

\* C23 happens: an api_call names the tool t9, which the context lacks.
MissingToolWitness ==
    \E i \in ToolCallRuns :
        /\ frames[i].outcome.output = ToolCall("api_call", 2)
        /\ frames[i].pc = "failed"

\* the runs of prompt steps whose handler has been entered
PromptRuns ==
    {i \in 1..Len(frames) : StepKind(i) = "PromptStep" /\ frames[i].handled}

\* the prompt step of run i runs tools by itself and the model asked for a
\* tool call of one of the types
AutoRunsTool(i, types) ==
    /\ ~CurrentStep(task, frames[i]).unwrap
    /\ CurrentStep(task, frames[i]).auto_run_tools
    /\ FinishReason(frames[i].outcome.output) = "tool_calls"
    /\ InputType(frames[i].outcome.output) \in types

\* the types of the transitions run i committed after its init
TypesCommitted(i) == [p \in 1..Len(StepCommits(i)) |-> StepCommits(i)[p].type]

\* C24: for a prompt step that runs tools by itself and a response asking
\* for a function tool call: the handler first invokes raise_complete_async,
\* which commits wait, and the run is suspended; only when the caller has
\* delivered the results is prompt_step invoked again, with the message and
\* the results appended to the prompt; the state returned then has type
\* resume and the second response's output, and is committed after the wait.
PromptFunctionCallOrder ==
    \A i \in PromptRuns :
        AutoRunsTool(i, {"function"}) =>
            /\ frames[i].calls \in {<<"raise_complete_async">>,
                                     <<"raise_complete_async", "prompt_step">>}
            /\ IF Awaits(i, "suspend")
               THEN TypesCommitted(i) = <<>>
               ELSE /\ TypesCommitted(i) \in {<<"wait">>, <<"wait", "resume">>}
                    /\ StepCommits(i)[1].output = ToolCalls(frames[i].outcome.output)
            /\ frames[i].pc = "suspended" =>
                  TypesCommitted(i) = <<"wait">> /\ Len(frames[i].calls) = 1
            /\ Len(frames[i].calls) = 1 =>
                  frames[i].pc = "suspended" \/ Awaits(i, "suspend")
            /\ Len(frames[i].calls) = 1 =>
                  frames[i].prompt = <<>> /\ frames[i].response = UnsetVal
            /\ Len(frames[i].calls) = 2 =>
                  /\ Len(frames[i].prompt) = 2
                  /\ frames[i].prompt[1] = frames[i].outcome.output
                  /\ frames[i].prompt[2] \in ResumeInputs
            /\ frames[i].state # NoState =>
                  /\ Len(frames[i].calls) = 2
                  /\ Ok(frames[i].response) \in SecondResponses
                        \/ frames[i].response = Null
                  /\ frames[i].state = PartialTransition("resume", frames[i].response)
            /\ Len(StepCommits(i)) = 2 =>
                  /\ frames[i].state # NoState
                  /\ StepCommits(i)[2].output = frames[i].response

\* C24 happens: the second response's message has been committed as resume.
PromptFunctionWitness ==
    \E i \in PromptRuns :
        /\ AutoRunsTool(i, {"function"})
        /\ TypesCommitted(i) = <<"wait", "resume">>
        /\ StepCommits(i)[2].output = Message(2, "stop", "")

\* C29: a prompt step with unwrap set, or with auto_run_tools false, or
\* whose response's finish_reason is not tool_calls, invokes no activity in
\* its handler, is never suspended, and returns a state without type whose
\* output is the response.
PromptOutputsMessage ==
    \A i \in PromptRuns :
        (\/ CurrentStep(task, frames[i]).unwrap
         \/ ~CurrentStep(task, frames[i]).auto_run_tools
         \/ FinishReason(frames[i].outcome.output) # "tool_calls") =>
            /\ frames[i].calls = <<>>
            /\ frames[i].state = PartialTransition("", frames[i].outcome.output)
            /\ \A p \in 1..Len(StepCommits(i)) : StepCommits(i)[p].type # "wait"

\* C29 happens: a prompt step with unwrap and auto_run_tools set got a
\* response asking for a function tool call and committed it as a step.
PromptOutputsWitness ==
    \E i \in PromptRuns :
        /\ CurrentStep(task, frames[i]).unwrap
        /\ CurrentStep(task, frames[i]).auto_run_tools
        /\ frames[i].outcome.output = Message(1, "tool_calls", "function")
        /\ TypesCommitted(i) = <<"step">>
        /\ StepCommits(i)[1].output = frames[i].outcome.output

\* C30 (as the specification states it): a prompt step that runs tools by
\* itself and gets a response asking for an integration, api_call or system
\* tool call fails, and commits no step or resume transition.
PromptToolBranchesFail ==
    \A i \in PromptRuns :
        AutoRunsTool(i, {"integration", "api_call", "system"}) =>
            /\ frames[i].pc = "failed"
            /\ \A p \in 1..Len(StepCommits(i)) :
                  StepCommits(i)[p].type \notin {"step", "resume"}

\* the runs of wait-for-input steps whose handler has been entered
WaitRuns ==
    {i \in 1..Len(frames) : StepKind(i) = "WaitForInputStep" /\ frames[i].handled}

\* the position in the log of the k-th transition run i committed after init
CommitAt(i, k) ==
    CHOOSE p \in 1..Len(log) :
        /\ log[p] = StepCommits(i)[k]
        /\ Cardinality({q \in 1..p : log[q].by = i
                            /\ log[q].type \notin {"init", "init_branch"}}) = k

\* C31: a wait-for-input step commits wait before it is suspended; while it
\* is suspended it has committed nothing else and has no input; the
\* transition that follows the wait in the execution's log is a resume
\* whose output is the input the caller supplied.
WaitThenResume ==
    \A i \in WaitRuns \ {i \in 1..Len(frames) :
                              (Awaits(i, "suspend") \/ CancelledAwaiting(i, "suspend"))
                                 /\ StepCommits(i) = <<>>} :
        /\ TypesCommitted(i) \in {<<"wait">>, <<"wait", "resume">>}
        /\ frames[i].pc = "suspended" =>
              TypesCommitted(i) = <<"wait">> /\ frames[i].response = UnsetVal
        /\ Len(StepCommits(i)) = 2 =>
              /\ frames[i].response \in ResumeInputs
              /\ StepCommits(i)[2].output = frames[i].response
        /\ \A q \in (CommitAt(i, 1) + 1)..Len(log) :
              (log[q].scope = frames[i].scope
                  /\ \A r \in (CommitAt(i, 1) + 1)..(q - 1) : log[r].scope # frames[i].scope)
              => log[q].type = "resume" /\ log[q].by = i

\* C31 happens: the caller supplied 6 and the resume carrying 6 is committed,
\* and the execution has gone on to finish.
WaitResumeWitness ==
    \E i \in WaitRuns :
        /\ TypesCommitted(i) = <<"wait", "resume">>
        /\ StepCommits(i)[2].output = VInt(6)
        /\ log[Len(log)].type = "finish"

\* the runs of yield steps whose handler has been entered
YieldRuns ==
    {i \in 1..Len(frames) : StepKind(i) = "YieldStep" /\ frames[i].handled}

\* C32 (as stated): a yield step whose transition the engine accepts has
\* committed, as its first transition of the step, the type and the target
\* its outcome gives, with the outcome's output; it has started exactly one
\* child, which runs at that target with that output as input (it does not
\* fail before it is there) and whose transitions all come after the
\* yield's; and until the child has returned the yield's run has committed
\* nothing else.  When the engine rejects the transition, no child is
\* started.
YieldCommitsThenSpawns ==
    \A i \in YieldRuns :
        IF \/ frames[i].cause = "transition" /\ frames[i].state = NoState
           \/ Awaits(i, "yield") \/ CancelledAwaiting(i, "yield")
        THEN ChildrenOf(i) = {} /\ StepCommits(i) = <<>>
        ELSE /\ Len(StepCommits(i)) >= 1
             /\ StepCommits(i)[1].type = frames[i].outcome.transition_to.type
             /\ StepCommits(i)[1].next = frames[i].outcome.transition_to.target
             /\ StepCommits(i)[1].output = frames[i].outcome.output
             /\ Cardinality(ChildrenOf(i)) = 1
             /\ \A c \in ChildrenOf(i) :
                   /\ Cursor(frames[c]) = frames[i].outcome.transition_to.target
                   /\ frames[c].current_input = frames[i].outcome.output
                   /\ frames[c].cause # "no_task"
                   /\ \A p \in 1..Len(log) :
                         log[p].scope = frames[c].scope => p > CommitAt(i, 1)
                   /\ frames[c].pc \notin Ended => Len(StepCommits(i)) = 1
             /\ frames[i].pc = "await_child" => Len(StepCommits(i)) = 1

\* C33 (as the specification states it): a run of an error step that has
\* ended without being cancelled has failed after committing exactly one
\* transition for the step, an error whose output is the step's message,
\* and has started no continuation.
ErrorStepCommitsError ==
    \A i \in 1..Len(frames) :
        (StepKind(i) = "ErrorWorkflowStep" /\ frames[i].pc \in Ended
            /\ frames[i].cause # "cancelled") =>
            /\ frames[i].pc = "failed"
            /\ TypesCommitted(i) = <<"error">>
            /\ StepCommits(i)[1].output = VStr(CurrentStep(task, frames[i]).error)
            /\ ContinuationsOf(i) = {}

\* C34 (as the specification states it): the current step of the context,
\* its prompt included, stays as it was resolved at the top of the step:
\* no handler has appended anything to the prompt.
StepContextUnchanged ==
    \A i \in 1..Len(frames) : frames[i].prompt = <<>>

\* the step variants the specification lists as having no backing activity
NoActivityKinds == {"SleepStep", "GetStep", "LogStep", "ParallelStep"}

\* C35 (as the specification states it): a run that is past the dispatch
\* of its step and was not cancelled has, for a sleep, get, log or parallel
\* step, dispatched no activity and entered the handler; for any other
\* step it has got the answer of the step's activity, and that before the
\* handler.
NoActivityKindsReachHandler ==
    \A i \in 1..Len(frames) :
        (frames[i].pc \notin {"begin", "dispatch"} /\ ~Awaits(i, "init")
            /\ frames[i].cause # "cancelled") =>
            IF StepKind(i) \in NoActivityKinds
            THEN frames[i].answer = NoOutcome /\ frames[i].handled
            ELSE frames[i].answer # NoOutcome

\* C36: when a child execution started by an if/else, switch, foreach or
\* map-reduce step has failed and the step's run has seen it, that run has
\* failed with the child's error, at the composite step: it has returned no
\* state, committed no transition for the step and started no continuation.
ChildErrorFailsParent ==
    \A i \in 1..Len(frames) :
        (StepKind(i) \in CompositeKinds /\ frames[i].handled) =>
            \A c \in ChildrenOf(i) :
                (frames[c].pc = "failed" /\ frames[i].pc # "await_child"
                    /\ frames[i].cause # "cancelled") =>
                    /\ frames[i].pc = "failed"
                    /\ frames[i].err = frames[c].err
                    /\ frames[i].state = NoState
                    /\ StepCommits(i) = <<>>
                    /\ ContinuationsOf(i) = {}

\* C36 happens: the second child of a foreach step has failed after the
\* first returned, and the foreach step's run has failed with its error.
ChildErrorWitness ==
    \E i \in ForeachRuns :
        /\ Cardinality(ChildrenOf(i)) = 2
        /\ frames[i].pc = "failed"
        /\ \E c, d \in ChildrenOf(i) :
              /\ frames[c].pc = "done"
              /\ frames[d].pc = "failed"
              /\ frames[i].err = frames[d].err

\* C37: when the type of a tool call is none of function, integration,
\* api_call and system, the handler of the tool-call step invokes no
\* activity and returns no state (None); the one transition run then
\* commits for the step is an error whose output is "Not implemented".
UnknownToolTypeIsError ==
    \A i \in ToolCallRuns :
        frames[i].outcome.output.s \notin ToolTypes =>
            /\ frames[i].calls = <<>>
            /\ frames[i].response = UnsetVal
            /\ frames[i].state = NoneState
            /\ frames[i].pc \in {"commit", "save", "await_cont", "failed"}
            /\ frames[i].pc # "commit" =>
                  /\ TypesCommitted(i) = <<"error">>
                  /\ StepCommits(i)[1].output = VStr("Not implemented")

\* C37 happens: the error has been committed for a tool call of unknown type.
UnknownToolTypeWitness ==
    \E i \in ToolCallRuns :
        /\ frames[i].outcome.output.s = "unknown"
        /\ TypesCommitted(i) = <<"error">>

\* C38 (as the specification states it): when the transition committed
\* after a step's handler is not finish, finish_branch or cancelled and has
\* no next cursor, the run fails with "No next step", having stored nothing
\* and started no continuation; and after any error transition its
\* execution's log has no further transition, and the run that committed it
\* has failed, having stored nothing and started no continuation: no step
\* is executed after an error transition.
NoNextStepFails ==
    /\ \A i \in 1..Len(frames) :
          (CommittedItsState(i)
              /\ StepCommits(i)[Len(StepCommits(i))].type
                    \notin {"finish", "finish_branch", "cancelled"}
              /\ StepCommits(i)[Len(StepCommits(i))].next = NoTarget) =>
              /\ frames[i].pc = "failed"
              /\ frames[i].err = "No next step"
              /\ frames[i].stored = UnsetVal
              /\ ContinuationsOf(i) = {}
    /\ \A p \in 1..Len(log) :
          log[p].type = "error" =>
              /\ \A q \in (p + 1)..Len(log) : log[q].scope # log[p].scope
              /\ frames[log[p].by].pc = "failed"
              /\ ContinuationsOf(log[p].by) = {}
              /\ frames[log[p].by].stored = UnsetVal

TerminalCommitted ==
    \E p \in 1..Len(log) : log[p].scope = 1 /\ log[p].type \in TerminalTypes

\* C40 (as stated): under fair scheduling, without yield steps, the
\* execution eventually commits a terminal transition, and from some point
\* on no run is live any more, so that no continuation is started.
EventuallyTerminal ==
    <>(TerminalCommitted /\ \A i \in 1..Len(frames) : frames[i].pc \in Ended)

====
